---- MODULE Spec2Model ----
(***************************************************************************)
(* learnP2P: the secure file-transfer protocol of package transfer.        *)
(*                                                                         *)
(* One Send and one Receive run on the two ends of a bidirectional byte    *)
(* stream.  The stream carries the fields the code writes and reads, one   *)
(* token per Write/Read call of the code (a tag byte, a big-endian uint32, *)
(* a byte string).  Cryptography is symbolic: a ciphertext records the     *)
(* key, nonce, associated data and plaintext it was sealed from, and opens *)
(* only under the same key, nonce and associated data; SHA-256 is          *)
(* collision free.                                                         *)
(*                                                                         *)
(* The repository holds two Send functions: the RSA-OAEP one (header 0x02, *)
(* src/unnamed/part_000) and the one of src/transfer/sender.go (header     *)
(* 0x01, key in the clear).  sndImpl says which of them runs.              *)
(***************************************************************************)
EXTENDS Integers, Sequences, FiniteSets, TLC

\* ------------------------------------------------------------------ bounds
MaxFileLen == 3        \* longest source file, in bytes

\* ------------------------------------------------------- program constants
\* ChunkSize is 1 << 20 in the code; the model scales it down so that files
\* of a few bytes span several chunks.
ChunkSize == 2
\* Send and Receive are called up to MaxCalls times in a row.
MaxCalls == 2
\* Up to NSessions incoming sessions run at the same time in one process.
NSessions == 3
\* NCallers goroutines call one session's nonceFor, MaxDerive times each.
NCallers == 2
\* Where the wrap of the counter matters the uint32 is CtrBits wide.
CtrBits == 2
\* On a connection used for several transfers a file has up to MaxMultiChunks chunks.
MaxMultiChunks == 2
\* NIsoSessions Receive sessions run concurrently, each for a file of up to
\* MaxIsoChunks chunks.
MaxIsoChunks == 1
NIsoSessions == 2
\* fileName is applied to paths of up to MaxPathLen characters.
MaxPathLen == 4
\* The first line of a TCP connection has up to MaxLineLen pieces.
MaxLineLen == 8
MaxDerive == 2
\* dcConn: the sizes of webrtc_stream.go scaled down, their order kept
\* (max < threshold * 4 = highWater): max is 32 * 1024, threshold 1 << 20 and the
\* capacity of c.msgs 64 in the code.
max == 2
threshold == 1
highWater == threshold * 4
QueueCap == 2
\* Write is passed enough bytes in all to fill the channel's buffer beyond
\* highWater, at most MaxWrite per call; Read is passed buffers of 1..MaxReadBuf
\* bytes; Close is called up to MaxCloseCalls times at each end.
MaxStream == highWater + max + 1
MaxWrite == max + 1
MaxReadBuf == max
MaxCloseCalls == 2
KeySize == 32
NonceSize == 12
RSABits == 4096
MaxPubKeyLen == 1000000
MaxEncKeyLen == 10000
TagPubKey == 1
TagKeyHeader == 2
TagLegacyHeader == 1
GCMTagSize == 16

PublicDir == <<"public">>

\* -------------------------------------------------------------- data model
FileBytes == {0, 1}

\* a byte string that is no content of the source file
Foreign == <<2>>

RECURSIVE SeqsUpTo(_)
SeqsUpTo(n) ==
    IF n = 0 THEN {<<>>}
    ELSE LET S == SeqsUpTo(n - 1)
         IN  S \cup {Append(s, b) : s \in {t \in S : Len(t) = n - 1}, b \in FileBytes}

Contents == SeqsUpTo(MaxFileLen)

Min(a, b) == IF a < b THEN a ELSE b

\* The path of the source file, one element per character.
FilePath == <<"d", "/", "a">>

\* a test that knows one separator convention only
IsSepSlash(c) == c = "/"

\* path[i] == '/' || path[i] == '\\'
IsSep(c) == c = "/" \/ c = "\\"

\* fileName: the part of path after the last '/' or '\'.
RECURSIVE fileNameFrom(_, _)
fileNameFrom(path, i) ==
    IF i < 1 THEN path
    ELSE IF IsSep(path[i]) THEN SubSeq(path, i + 1, Len(path))
    ELSE fileNameFrom(path, i - 1)

fileName(path) == fileNameFrom(path, Len(path))

\* sha256.Sum of data: collision free, so the digest stands for the data.
SHA256(data) == [alg |-> "sha256", of |-> data]

\* hex.EncodeToString / hex.DecodeString
HexEncode(sum) == [enc |-> "hex", raw |-> sum]
HexValid(h) == h.enc = "hex"
HexDecode(h) == h.raw

\* BuildManifest(path) over the file's current content
BuildManifest(path, data) ==
    [Name |-> fileName(path), Size |-> Len(data), Hash |-> HexEncode(SHA256(data))]

\* json.Marshal / json.Unmarshal of a Manifest
JSONMarshal(m) == [json |-> m, wf |-> TRUE]
\* a decoder that accepts bytes that are no JSON of a Manifest
JSONValidAlways(b) == TRUE
\* json.Unmarshal(mbytes, &man) returns no error
JSONValid(b) == b.wf
\* a decoding that gets the hash field wrong
JSONUnmarshalOtherHash(b) == [b.json EXCEPT !.Hash = HexEncode(SHA256(Foreign))]
JSONUnmarshal(b) == b.json

\* []byte("manifest")
ManifestAAD == [alg |-> "literal", of |-> <<>>]

\* ------------------------------------------------------------------ crypto
\* The receiver's process-wide RSA key pair; the public key of private key k.
RSAPriv == 1
PublicOf(priv) == priv

MarshalPublicKeyDER(pub) == [kind |-> "der", pub |-> pub]
PubDERLen == (RSABits \div 8) + 38

EncryptKeyRSAOAEP(pub, key) == [kind |-> "rsa", pub |-> pub, key |-> key]
EncKeyLen == RSABits \div 8
DecryptOK(priv, ct) == ct.kind = "rsa" /\ ct.pub = PublicOf(priv)

\* a source of randomness that returns the same bytes at every read
RandReadFixed(r) == 1

\* crypto/rand: what read number r + 1 of the process returns; no two reads
\* return the same bytes
RandRead(r) == r + 1

\* GenerateKey(): KeySize bytes of crypto/rand
GenerateKey(r) == RandRead(r)

\* rand.Read(base): NonceSize random bytes; the bytes the counter overwrites
\* start out non-zero
BaseOf(v) == [i \in 1..NonceSize |-> IF i = 1 THEN v ELSE IF i <= 8 THEN 7 ELSE 255]

\* a call of Send reads crypto/rand twice: the key, then the base nonce
SessionKeys == {GenerateKey(r) : r \in 0..(2 * MaxCalls - 1)}
BaseNonces == {BaseOf(RandRead(r)) : r \in 0..(2 * MaxCalls - 1)}

\* A uint32 is kept as its four bytes, most significant first, so that the
\* counter has exactly the width it has in the code.
Uint32Zero == <<0, 0, 0, 0>>

\* byte(ctr >> s) for s in {24, 16, 8, 0}
ByteAt(ctr, s) == ctr[4 - (s \div 8)]

\* nonceFor without the counter: every call returns the base nonce
nonceForBase(base, ctr) == base

\* nonceFor: n := copy of base; i := len(n) - 4; n[i+0..i+3] = byte(ctr >> 24, 16, 8, 0)
nonceFor(base, ctr) ==
    LET i == Len(base) - 4
    IN  [j \in 1..Len(base) |->
           IF j = i + 1 THEN ByteAt(ctr, 24)
           ELSE IF j = i + 2 THEN ByteAt(ctr, 16)
           ELSE IF j = i + 3 THEN ByteAt(ctr, 8)
           ELSE IF j = i + 4 THEN ByteAt(ctr, 0)
           ELSE base[j]]

\* a counter that is never incremented
NextCtrStuck(ctr) == ctr

\* ctr++ on a uint32: add one to the last byte and carry, wrapping at 2^32
NextCtr(ctr) ==
    IF ctr[4] < 255 THEN [ctr EXCEPT ![4] = @ + 1]
    ELSE IF ctr[3] < 255 THEN [ctr EXCEPT ![4] = 0, ![3] = @ + 1]
    ELSE IF ctr[2] < 255 THEN [ctr EXCEPT ![4] = 0, ![3] = 0, ![2] = @ + 1]
    ELSE IF ctr[1] < 255 THEN [ctr EXCEPT ![4] = 0, ![3] = 0, ![2] = 0, ![1] = @ + 1]
    ELSE Uint32Zero

\* aead.Seal / aead.Open of AES-256-GCM
Seal(key, nonce, pt, aad) ==
    [kind |-> "gcm", key |-> key, nonce |-> nonce, aad |-> aad, pt |-> pt, alt |-> "none"]

OpenOK(key, nonce, ct, aad) ==
    /\ ct.kind = "gcm"
    /\ ct.alt # "bytes"
    /\ ct.key = key
    /\ ct.nonce = nonce
    /\ ct.aad.alg = aad.alg
    /\ ct.aad = aad

\* len(json.Marshal(man)): {"name":"","size":,"hash":""} around the values
JSONLen(m) == 29 + Len(m.Name) + 1 + 64

\* the error of aead.Open ignored
OpenFailsNever(key, nonce, ct, aad) == FALSE

\* pt, err := aead.Open(...); if err != nil { return ... }
OpenFails(key, nonce, ct, aad) == ~OpenOK(key, nonce, ct, aad)

\* any tag byte accepted
UnexpectedTagNever(got, want) == FALSE

\* if msgType != 0x01 { return ... }   /   if ver != 0x02 { return ... }
UnexpectedTag(got, want) == got # want

\* ------------------------------------------------------------------ stream
NoPayload == [kind |-> "none"]
ByteTok(v) == [f |-> "byte", n |-> v, p |-> NoPayload]
U32Tok(v) == [f |-> "u32", n |-> v, p |-> NoPayload]
BytesTok(n, p) == [f |-> "bytes", n |-> n, p |-> p]

\* ------------------------------------------------------------------- state
VARIABLES
    sndImpl,     \* which Send runs: "rsa" (part_000) or "legacy" (sender.go)
    sndPc,       \* position of Send
    sndErr,      \* the error Send returned, "" if none
    srcFile,     \* content of the source file
    sman,        \* man of Send
    sndMsgType,  \* msgType of Send: the tag byte it read, -1 before
    sndPub,      \* pub of Send: the receiver's parsed public key
    sndPkLen,    \* pkLen of Send
    sndKey,      \* key of Send
    sndBase,     \* base of Send
    sndCtr,      \* ctr of Send
    sndSeals,    \* the seals of Send in call order: counter, nonce, associated data
    sndOff,      \* read offset of f in Send
    sndBuf,      \* bw of Send: written, not yet flushed
    rcvPc,       \* position of Receive
    rcvErr,      \* the error Receive returned, "" if none
    rcvVer,      \* ver of Receive: the tag byte it read, -1 before
    rcvLen,      \* ekLen / clen of Receive: the length just read
    rcvEncKey,   \* encKey of Receive
    rcvKey,      \* key of Receive
    rcvBase,     \* base of Receive
    rcvCtr,      \* ctr of Receive
    rcvOpens,    \* the opens of Receive in call order: counter, nonce, associated
                 \* data, stream position of the frame, the frame's state, outcome
    rman,        \* man of Receive
    written,     \* written of Receive
    hdata,       \* the bytes fed to h in Receive
    outOpen,     \* whether out is open
    fs,          \* the receiver's file system: path -> content
    fsLog,       \* the file-system calls of Receive, in order
    s2r,         \* stream sender -> receiver: flushed, not yet read
    r2s,         \* stream receiver -> sender: flushed, not yet read
    s2rLog,      \* every token Send put on the stream, in order
    r2sLog,      \* every token Receive put on the stream, in order
    s2rRead,     \* number of tokens Receive consumed
    s2rEOF,      \* the sender side of the connection was closed
    r2sEOF,      \* the receiver side of the connection was closed
    faults,      \* the faults the stream suffered, in order
    env          \* whether the run has suffered its environment event (a fault of
                 \* the stream, an edit of the source file, a failing file operation);
                 \* a run suffers at most one
VARIABLES
    cryptoOps,   \* the cryptographic operations the current calls of Send and
                 \* Receive have attempted
    randReads,   \* number of reads of crypto/rand so far
    calls,       \* number of the current call of Send / Receive
    pastSeals    \* key and nonce of every seal of the earlier calls of Send

sndVars == <<sndImpl, sndPc, sndErr, sman, sndMsgType, sndPub, sndPkLen, sndKey, sndBase,
             sndCtr, sndSeals, sndOff, sndBuf>>
rcvVars == <<rcvPc, rcvErr, rcvVer, rcvLen, rcvEncKey, rcvKey, rcvBase, rcvCtr,
             rcvOpens, rman, written, hdata, outOpen, fs, fsLog>>
netVars == <<s2r, r2s, s2rLog, r2sLog, s2rRead, s2rEOF, r2sEOF, faults>>
VARIABLES
    \* one data channel between two dcConn: the end "w" whose Write is followed
    \* and the end "r" whose Read is followed
    dcState,       \* the data channel: "open" or "closed"
    closed,        \* c.closed of each end
    msgsCloses,    \* how often close(c.msgs) ran at each end
    closeCalls,    \* number of dcConn.Close calls made at each end
    closeNil,      \* how many of them returned nil without calling dc.Close
    closePending,  \* a Close call at the end has left the mutex and not yet called dc.Close
    dcCloseCalls,  \* number of dc.Close calls made by each end
    onClosePc,     \* position of the OnClose callback of each end
    lowCh,         \* c.lowCh of each end: number of signals buffered (0 or 1)
    wPc,           \* position of the Write call at "w"
    wP,            \* p of Write: the bytes still to send
    wN,            \* n of Write: size of the fragment about to be sent
    wWritten,      \* written of Write
    wRet,          \* the error the last Write call returned
    wNext,         \* number of bytes passed to Write calls so far (byte k has value k)
    dcOut,         \* messages dc.Send accepted at "w" and the channel still buffers
    msgs,          \* c.msgs of "r"
    cur,           \* c.cur of "r"
    rPc,           \* position of the Read call at "r"
    rLen,          \* len(p) of the Read call
    readOut,       \* the bytes the Read calls returned so far, concatenated
    readEOF,       \* a Read call returned io.EOF
    omPc,          \* position of the OnMessage callback at "r"
    omMsg,         \* b of the OnMessage callback
    panicked,      \* the process of "r" panicked
    owed,          \* "r" was closed while it held the rest of a partly read
                   \* message and queued messages
    wSizes,        \* the sizes of p the callers pass to Write
    rSizes,        \* the sizes of p the callers pass to Read
    closeCap,      \* how often the callers call Close at each end
    rd,            \* c.rd of "r": 0 is the zero time (no deadline)
    wd,            \* c.wd of "w"
    now            \* the time
VARIABLES
    kPc,           \* position of each session's GetOrCreateRSA4096 call
    kSlow,         \* the call went through once.Do's locked path
    kRet,          \* what each call returned: <<key, error>>
    onceDone,      \* once.done
    onceMu,        \* once.m: the session that holds it, 0 if none
    cachedPriv,    \* cachedPriv: 0 is nil, k > 0 the key of the k-th generation
    onceErr,       \* onceErr, "" is nil
    genStarts,     \* GenerateRSA4096 calls begun
    genEnds,       \* GenerateRSA4096 calls finished
    privWrites     \* assignments to cachedPriv
VARIABLES
    nCtr,          \* ctr of one session, shared by the callers of its nonceFor
    nPc,           \* position of each caller in nonceFor
    nN,            \* n of each caller: the nonce it has filled in
    nTmp,          \* the value of ctr each caller loaded for ctr++
    nOut           \* the nonces nonceFor returned to each caller, in order
VARIABLES
    cPc,           \* position of a Send whose counter is CtrBits wide
    cCtr,          \* its ctr
    cSeals,        \* the counter values its seals used, in order
    cWire,         \* the nonces of its frames the receiver has not opened yet
    cRcvCtr,       \* ctr of the Receive at the other end
    cOpens         \* number of frames that Receive opened
VARIABLES
    mS2R,          \* one connection used for several transfers: sender to receiver
    mR2S,          \* the same connection, receiver to sender
    mSbr,          \* what br of the running Send holds
    mRbr,          \* what br of the running Receive holds
    mSndPc,        \* position of the running Send
    mSndK,         \* number of the Send call
    mSndSize,      \* chunks of the file of the running Send
    mSndSent,      \* chunk frames the running Send wrote
    mSndOk,        \* Send calls that returned nil
    mRcvPc,        \* position of the running Receive
    mRcvK,         \* number of the Receive call
    mRcvSize,      \* chunks the manifest of the running Receive declared
    mRcvGot,       \* chunk frames the running Receive read
    mRcvOk,        \* Receive calls that returned nil
    mLost          \* what the readers of returned calls still held
VARIABLES
    iPc,             \* position of each of the concurrent Receive sessions
    iName,           \* man.Name of each session
    iSize,           \* man.Size of each session, in chunks
    iWritten,        \* written of each session, in chunks
    iSeen,           \* the value of lastProgressLen each session's printProgress read
    lastProgressLen, \* the package-level variable of printProgress
    iWrites          \* who wrote what: <<session, "var" or "file", target>>
VARIABLES
    fnPath,          \* the path of the last fileName call
    fnOut            \* what that call returned
VARIABLES
    tPc,             \* position of ListenAndAcceptOnce: "accept", "rejected" (at
                     \* continue), "returned", "failed"
    tLine,           \* what the last accepted connection sent before its first '\n'
    tReply,          \* what was written to that connection: "", "DENY" or "WELCOME"
    tClosed,         \* conn.Close() was called on that connection
    tPeer            \* peerName as returned
VARIABLES
    cbPc,            \* position of each callback invocation that may close connected
    connCloses,      \* how often close(connected) ran
    connPanic,       \* the process panicked on a close of a closed channel
    waitPc           \* position of a goroutine that receives from p.Connected()
VARIABLES
    hsPc,            \* position of each side of a TCP connection in its handshake
    hsRole,          \* what each side calls on the connection returned: "recv" or "send"
    hsNet,           \* the bytes written towards each side that have not arrived yet
    hsConn,          \* the bytes that have arrived at each side and were not read yet
    hsBuf,           \* what r, the bufio.Reader of the handshake, holds at each side
    hsLost,          \* what r held beyond the line when the handshake returned
    hsFirst          \* the first byte Send read from the connection returned

sessVars == <<cryptoOps, randReads, calls, pastSeals>>
keyVars == <<kPc, kSlow, kRet, onceDone, onceMu, cachedPriv, onceErr, genStarts, genEnds,
             privWrites>>
nonceVars == <<nCtr, nPc, nN, nTmp, nOut>>
ctrVars == <<cPc, cCtr, cSeals, cWire, cRcvCtr, cOpens>>
multiVars == <<mS2R, mR2S, mSbr, mRbr, mSndPc, mSndK, mSndSize, mSndSent, mSndOk,
               mRcvPc, mRcvK, mRcvSize, mRcvGot, mRcvOk, mLost>>
isoVars == <<iPc, iName, iSize, iWritten, iSeen, lastProgressLen, iWrites>>
fnVars == <<fnPath, fnOut>>
tcpVars == <<tPc, tLine, tReply, tClosed, tPeer>>
connVars == <<cbPc, connCloses, connPanic, waitPc>>
hsVars == <<hsPc, hsRole, hsNet, hsConn, hsBuf, hsLost, hsFirst>>
procVars == <<keyVars, nonceVars, ctrVars, multiVars, isoVars, fnVars, tcpVars, connVars, hsVars>>
xferVars == <<sndVars, rcvVars, netVars, srcFile, env, sessVars, procVars>>
closeVars == <<dcState, closed, msgsCloses, closeCalls, closeNil, closePending,
               dcCloseCalls, onClosePc>>
writeVars == <<wPc, wP, wN, wWritten, wRet, wNext>>
readVars == <<cur, rPc, rLen, readOut, readEOF>>
dcEnv == <<wSizes, rSizes, closeCap, rd, wd, now>>
dcVars == <<closeVars, writeVars, readVars, lowCh, dcOut, msgs, omPc, omMsg, panicked, owed, dcEnv>>
vars == <<xferVars, dcVars>>

Ends == {"w", "r"}
\* the callback invocations of one peer: OnOpen of the data channel, and
\* OnICEConnectionStateChange with each of the states the connection goes through
Invocations == {"open", "checking", "connected", "completed"}
\* the two sides of a TCP connection
Sides == {"dialer", "listener"}
\* the values of the counter, and a file of more than twice as many chunks
CtrMod == 2 ^ CtrBits
MaxChunks == 2 * CtrMod + 2
\* the simultaneous incoming sessions of one receiving process
Sessions == 1..NSessions
NoKeyRet == <<-1, "">>
\* concurrent Receive sessions that receive files
IsoSessions == 1..NIsoSessions
\* goroutines that call the nonceFor of one session
Callers == 1..NCallers
NoRet == "none"

NoManifest == [Name |-> <<>>, Size |-> 0, Hash |-> [enc |-> "none", raw |-> SHA256(<<>>)]]
NoCipher == [kind |-> "none"]
NoNonce == [i \in 1..NonceSize |-> 0]

\* The output directory already holds a file of the same name, left by an
\* earlier transfer.
OldContent == <<9>>

\* the elements of a path between its separators
RECURSIVE SplitPath(_, _)
SplitPath(path, elem) ==
    IF path = <<>> THEN <<elem>>
    ELSE IF Head(path) = "/" THEN <<elem>> \o SplitPath(Tail(path), <<>>)
    ELSE SplitPath(Tail(path), Append(elem, Head(path)))

DotDot == <<".", ".">>

\* filepath.Clean on the elements: empty and "." elements go, ".." takes the
\* element before it with it, stays at the front of a relative path and is
\* dropped at the root
RECURSIVE Resolve(_, _, _)
Resolve(elems, out, rooted) ==
    IF elems = <<>> THEN out
    ELSE LET c == Head(elems)
             rest == Tail(elems)
         IN  IF c = <<>> \/ c = <<".">> THEN Resolve(rest, out, rooted)
             ELSE IF c = DotDot
             THEN IF out # <<>> /\ out[Len(out)] # DotDot
                  THEN Resolve(rest, SubSeq(out, 1, Len(out) - 1), rooted)
                  ELSE IF rooted THEN Resolve(rest, out, rooted)
                  ELSE Resolve(rest, Append(out, c), rooted)
             ELSE Resolve(rest, Append(out, c), rooted)

RECURSIVE JoinElems(_)
JoinElems(elems) ==
    IF elems = <<>> THEN <<>>
    ELSE IF Len(elems) = 1 THEN elems[1]
    ELSE elems[1] \o <<"/">> \o JoinElems(Tail(elems))

\* filepath.Clean(path)
Clean(path) ==
    LET rooted == path # <<>> /\ path[1] = "/"
        out == JoinElems(Resolve(SplitPath(path, <<>>), <<>>, rooted))
    IN  IF rooted THEN <<"/">> \o out
        ELSE IF out = <<>> THEN <<".">> ELSE out

\* filepath.Join(dir, name): empty elements are ignored, the result is cleaned
Join(dir, name) == IF name = <<>> THEN Clean(dir) ELSE Clean(dir \o <<"/">> \o name)

\* outPath := filepath.Join(PublicDir, man.Name)
OutPathOf(name) == Join(PublicDir, name)
TmpPathOf(name) == OutPathOf(name) \o <<".part">>

\* newDCConn(dc) at both ends of an open data channel
DCInit ==
    /\ dcState = "open"
    /\ closed = [e \in Ends |-> FALSE]
    /\ msgsCloses = [e \in Ends |-> 0]
    /\ closeCalls = [e \in Ends |-> 0]
    /\ closeNil = [e \in Ends |-> 0]
    /\ closePending = [e \in Ends |-> FALSE]
    /\ dcCloseCalls = [e \in Ends |-> 0]
    /\ onClosePc = [e \in Ends |-> "idle"]
    /\ lowCh = [e \in Ends |-> 0]
    /\ wPc = "idle"
    /\ wP = <<>>
    /\ wN = 0
    /\ wWritten = 0
    /\ wRet = NoRet
    /\ wNext = 0
    /\ dcOut = <<>>
    /\ msgs = <<>>
    /\ cur = <<>>
    /\ rPc = "idle"
    /\ rLen = 0
    /\ readOut = <<>>
    /\ readEOF = FALSE
    /\ omPc = "idle"
    /\ omMsg = <<>>
    /\ panicked = FALSE
    /\ owed = FALSE
    /\ rd = 0
    /\ wd = 0
    /\ now = 0

\* the process has started: no session has asked for the receiver's key
KeyInit ==
    /\ kPc = [s \in Sessions |-> "idle"]
    /\ kSlow = [s \in Sessions |-> FALSE]
    /\ kRet = [s \in Sessions |-> NoKeyRet]
    /\ onceDone = FALSE
    /\ onceMu = 0
    /\ cachedPriv = 0
    /\ onceErr = ""
    /\ genStarts = 0
    /\ genEnds = 0
    /\ privWrites = 0

\* a session after its header: var ctr uint32, nobody inside nonceFor
NonceInit ==
    /\ nCtr = Uint32Zero
    /\ nPc = [c \in Callers |-> "idle"]
    /\ nN = [c \in Callers |-> NoNonce]
    /\ nTmp = [c \in Callers |-> Uint32Zero]
    /\ nOut = [c \in Callers |-> <<>>]

\* a session after its header: both counters 0, nothing sealed
CtrInit ==
    /\ cPc = "manifest"
    /\ cCtr = 0
    /\ cSeals = <<>>
    /\ cWire = <<>>
    /\ cRcvCtr = 0
    /\ cOpens = 0

\* a connection on which nothing was sent; the first Send and the first Receive
\* are about to be called
MultiInit ==
    /\ mS2R = <<>>
    /\ mR2S = <<>>
    /\ mSbr = <<>>
    /\ mRbr = <<>>
    /\ mSndPc = "idle"
    /\ mSndK = 0
    /\ mSndSize = 0
    /\ mSndSent = 0
    /\ mSndOk = 0
    /\ mRcvPc = "idle"
    /\ mRcvK = 0
    /\ mRcvSize = 0
    /\ mRcvGot = 0
    /\ mRcvOk = 0
    /\ mLost = <<>>

\* the sessions have opened nothing yet; var lastProgressLen int
IsoInit ==
    /\ iPc = [s \in IsoSessions |-> "manifest"]
    /\ iName = [s \in IsoSessions |-> <<>>]
    /\ iSize = [s \in IsoSessions |-> 0]
    /\ iWritten = [s \in IsoSessions |-> 0]
    /\ iSeen = [s \in IsoSessions |-> 0]
    /\ lastProgressLen = 0
    /\ iWrites = {}

\* fileName("") = ""
FnInit == fnPath = <<>> /\ fnOut = <<>>

\* ln := net.Listen(...): no connection accepted yet
TcpInit ==
    /\ tPc = "accept"
    /\ tLine = <<>>
    /\ tReply = ""
    /\ tClosed = FALSE
    /\ tPeer = <<>>

\* connected := make(chan struct{}); no callback has fired
ConnInit ==
    /\ cbPc = [i \in Invocations |-> "idle"]
    /\ connCloses = 0
    /\ connPanic = FALSE
    /\ waitPc = "idle"

\* a TCP connection was accepted: the dialer is about to write its HELLO line,
\* the listener to read it
HsInit ==
    /\ hsPc = [e \in Sides |-> IF e = "dialer" THEN "start" ELSE "readLine"]
    /\ hsRole = [e \in Sides |-> ""]
    /\ hsNet = [e \in Sides |-> <<>>]
    /\ hsConn = [e \in Sides |-> <<>>]
    /\ hsBuf = [e \in Sides |-> <<>>]
    /\ hsLost = [e \in Sides |-> <<>>]
    /\ hsFirst = ""

ProcInit ==
    KeyInit /\ NonceInit /\ CtrInit /\ MultiInit /\ IsoInit /\ FnInit /\ TcpInit /\ ConnInit /\ HsInit

\* no caller uses the stream adapter
DCIdle ==
    /\ wSizes = {}
    /\ rSizes = {}
    /\ closeCap = [e \in Ends |-> 0]

TransferInit ==
    /\ ProcInit
    /\ sndImpl \in {"rsa", "legacy"}
    /\ sndPc = "build"
    /\ sndErr = ""
    /\ srcFile \in Contents
    /\ sman = NoManifest
    /\ sndMsgType = -1
    /\ sndPub = 0
    /\ sndPkLen = 0
    /\ sndKey = 0
    /\ sndBase = NoNonce
    /\ sndCtr = Uint32Zero
    /\ sndSeals = <<>>
    /\ sndOff = 0
    /\ sndBuf = <<>>
    /\ rcvPc = "announce"
    /\ rcvErr = ""
    /\ rcvVer = -1
    /\ rcvLen = 0
    /\ rcvEncKey = NoCipher
    /\ rcvKey = 0
    /\ rcvBase = NoNonce
    /\ rcvCtr = Uint32Zero
    /\ rcvOpens = <<>>
    /\ rman = NoManifest
    /\ written = 0
    /\ hdata = <<>>
    /\ outOpen = FALSE
    /\ fs = [p \in {OutPathOf(fileName(FilePath))} |-> OldContent]
    /\ fsLog = <<>>
    /\ s2r = <<>>
    /\ r2s = <<>>
    /\ s2rLog = <<>>
    /\ r2sLog = <<>>
    /\ s2rRead = 0
    /\ s2rEOF = FALSE
    /\ r2sEOF = FALSE
    /\ faults = <<>>
    /\ env = FALSE
    /\ cryptoOps = {}
    /\ randReads = 0
    /\ calls = 1
    /\ pastSeals = <<>>

Init == TransferInit /\ DCInit /\ DCIdle

\* ------------------------------------------------------------------- Send
SendFail(e) ==
    /\ sndPc' = "failed"
    /\ sndErr' = e

\* a length check that lets a declared length of zero through
InvalidLenLax(n, bound) == n > bound

\* pkLen == 0 || pkLen > 1_000_000;  ekLen == 0 || ekLen > 10_000
InvalidLen(n, bound) == n = 0 \/ n > bound

\* the call of the function named by attempts the cryptographic operations ops
Did(by, ops) == cryptoOps' = cryptoOps \cup {[by |-> by, op |-> o] : o \in ops}

\* bw.Flush(): everything buffered goes onto the stream
FlushTo(buf) ==
    /\ s2r' = s2r \o buf
    /\ s2rLog' = s2rLog \o buf

\* man, err := BuildManifest(filePath)
SendBuild ==
    /\ sndPc = "build"
    /\ sman' = BuildManifest(FilePath, srcFile)
    /\ sndPc' = IF sndImpl = "rsa" THEN "readTag" ELSE "legacyHeader"
    /\ UNCHANGED <<sndImpl, sndErr, sndMsgType, sndPub, sndPkLen, sndKey, sndBase, sndCtr,
                   sndSeals, sndOff, sndBuf>>
    /\ UNCHANGED <<rcvVars, netVars, srcFile, env>>
    /\ Did("Send", {"sha256"})
    /\ UNCHANGED <<randReads, calls, pastSeals>>
    /\ UNCHANGED <<dcVars, procVars>>

\* msgType, err := br.ReadByte(); if msgType != 0x01 ...
SendReadTag ==
    /\ sndPc = "readTag"
    /\ \/ /\ r2s # <<>>
          /\ Head(r2s).f = "byte"
          /\ r2s' = Tail(r2s)
          /\ sndMsgType' = Head(r2s).n
          /\ IF UnexpectedTag(Head(r2s).n, TagPubKey)
             THEN SendFail("unexpected receiver message type")
             ELSE sndPc' = "readLen" /\ UNCHANGED sndErr
       \/ /\ r2s = <<>>
          /\ r2sEOF
          /\ SendFail("read receiver pubkey")
          /\ UNCHANGED <<r2s, sndMsgType>>
    /\ UNCHANGED <<sndImpl, sman, sndPub, sndPkLen, sndKey, sndBase, sndCtr,
                   sndSeals, sndOff, sndBuf>>
    /\ UNCHANGED <<rcvVars, s2r, s2rLog, r2sLog, s2rRead, s2rEOF, r2sEOF, faults,
                   srcFile, env>>
    /\ UNCHANGED sessVars
    /\ UNCHANGED <<dcVars, procVars>>

\* binary.Read(br, binary.BigEndian, &pkLen); if pkLen == 0 || pkLen > 1_000_000 ...
SendReadLen ==
    /\ sndPc = "readLen"
    /\ \/ /\ r2s # <<>>
          /\ Head(r2s).f = "u32"
          /\ r2s' = Tail(r2s)
          /\ sndPkLen' = Head(r2s).n
          /\ IF InvalidLen(Head(r2s).n, MaxPubKeyLen)
             THEN SendFail("invalid pubkey length")
             ELSE sndPc' = "readDER" /\ UNCHANGED sndErr
       \/ /\ r2s = <<>>
          /\ r2sEOF
          /\ SendFail("read pubkey len")
          /\ UNCHANGED <<r2s, sndPkLen>>
    /\ UNCHANGED <<sndImpl, sman, sndMsgType, sndPub, sndKey, sndBase, sndCtr,
                   sndSeals, sndOff, sndBuf>>
    /\ UNCHANGED <<rcvVars, s2r, s2rLog, r2sLog, s2rRead, s2rEOF, r2sEOF, faults,
                   srcFile, env>>
    /\ UNCHANGED sessVars
    /\ UNCHANGED <<dcVars, procVars>>

\* io.ReadFull(br, pkDER); pub, err := pcrypto.ParsePublicKeyDER(pkDER)
SendReadDER ==
    /\ sndPc = "readDER"
    /\ \/ /\ r2s # <<>>
          /\ Head(r2s).f = "bytes"
          /\ Head(r2s).n = sndPkLen
          /\ r2s' = Tail(r2s)
          /\ IF Head(r2s).p.kind # "der"
             THEN SendFail("parse pubkey") /\ UNCHANGED sndPub
             ELSE /\ sndPub' = Head(r2s).p.pub
                  /\ sndPc' = "header"
                  /\ UNCHANGED sndErr
       \/ \* the stream ends before pkLen bytes have arrived
          /\ r2s = <<>> \/ (r2s # <<>> /\ Head(r2s).f = "bytes" /\ Head(r2s).n < sndPkLen)
          /\ r2sEOF
          /\ SendFail("read pubkey der")
          /\ UNCHANGED <<r2s, sndPub>>
    /\ UNCHANGED <<sndImpl, sman, sndMsgType, sndPkLen, sndKey, sndBase, sndCtr,
                   sndSeals, sndOff, sndBuf>>
    /\ UNCHANGED <<rcvVars, s2r, s2rLog, r2sLog, s2rRead, s2rEOF, r2sEOF, faults,
                   srcFile, env>>
    /\ IF r2s # <<>> /\ Head(r2s).n = sndPkLen
       THEN Did("Send", {"ParsePublicKeyDER"})
       ELSE UNCHANGED cryptoOps
    /\ UNCHANGED <<randReads, calls, pastSeals>>
    /\ UNCHANGED <<dcVars, procVars>>

\* key, base := fresh; encKey := EncryptKeyRSAOAEP(pub, key);
\* write 0x02 | uint32(len(encKey)) | encKey | base; bw.Flush()
SendKeyHeader ==
    /\ sndPc = "header"
    /\ LET key == GenerateKey(randReads)
           base == BaseOf(RandRead(randReads + 1))
       IN /\ sndKey' = key
          /\ sndBase' = base
          /\ FlushTo(sndBuf \o
                <<ByteTok(TagKeyHeader),
                  U32Tok(EncKeyLen),
                  BytesTok(EncKeyLen, EncryptKeyRSAOAEP(sndPub, key)),
                  BytesTok(NonceSize, [kind |-> "nonce", b |-> base])>>)
    /\ sndBuf' = <<>>
    /\ sndPc' = "manifest"
    /\ UNCHANGED <<sndImpl, sndErr, sman, sndMsgType, sndPub, sndPkLen, sndCtr,
                   sndSeals, sndOff>>
    /\ UNCHANGED <<rcvVars, r2s, r2sLog, s2rRead, s2rEOF, r2sEOF, faults, srcFile, env>>
    /\ Did("Send", {"GenerateKey", "NewGCM", "rand.Read", "EncryptKeyRSAOAEP"})
    /\ randReads' = randReads + 2
    /\ UNCHANGED <<calls, pastSeals>>
    /\ UNCHANGED <<dcVars, procVars>>

\* sender.go: key, base := fresh; write 0x01 | key | base (not flushed)
SendLegacyHeader ==
    /\ sndPc = "legacyHeader"
    /\ LET key == GenerateKey(randReads)
           base == BaseOf(RandRead(randReads + 1))
       IN /\ sndKey' = key
          /\ sndBase' = base
          /\ sndBuf' = sndBuf \o
                <<ByteTok(TagLegacyHeader),
                  BytesTok(KeySize, [kind |-> "rawkey", key |-> key]),
                  BytesTok(NonceSize, [kind |-> "nonce", b |-> base])>>
    /\ sndPc' = "manifest"
    /\ UNCHANGED <<sndImpl, sndErr, sman, sndMsgType, sndPub, sndPkLen, sndCtr,
                   sndSeals, sndOff>>
    /\ UNCHANGED <<rcvVars, netVars, srcFile, env>>
    /\ Did("Send", {"GenerateKey", "NewGCM", "rand.Read"})
    /\ randReads' = randReads + 2
    /\ UNCHANGED <<calls, pastSeals>>
    /\ UNCHANGED <<dcVars, procVars>>

\* cman := aead.Seal(nil, nonceFor(), manBytes, []byte("manifest"));
\* write uint32(len(cman)) | cman; bw.Flush(); f := os.Open(filePath)
SendManifest ==
    /\ sndPc = "manifest"
    /\ LET n == nonceFor(sndBase, sndCtr)
           cman == Seal(sndKey, n, JSONMarshal(sman), ManifestAAD)
           clen == JSONLen(sman) + GCMTagSize
       IN  /\ sndSeals' = Append(sndSeals, [ctr |-> sndCtr, nonce |-> n, aad |-> ManifestAAD])
           /\ sndCtr' = NextCtr(sndCtr)
           /\ FlushTo(sndBuf \o <<U32Tok(clen), BytesTok(clen, cman)>>)
    /\ sndBuf' = <<>>
    /\ sndOff' = 0
    /\ sndPc' = "stream"
    /\ UNCHANGED <<sndImpl, sndErr, sman, sndMsgType, sndPub, sndPkLen, sndKey, sndBase>>
    /\ UNCHANGED <<rcvVars, r2s, r2sLog, s2rRead, s2rEOF, r2sEOF, faults, srcFile, env>>
    /\ Did("Send", {"Seal"})
    /\ UNCHANGED <<randReads, calls, pastSeals>>
    /\ UNCHANGED <<dcVars, procVars>>

\* a Read that returns one byte where a full block was there to read
ReadLenByte(off, size) == Min(1, size - off)

\* n, rerr := f.Read(buf) at offset off of a file of size bytes: a full block of
\* len(buf) = ChunkSize bytes, or what is left of the file, or 0 with io.EOF
ReadLen(off, size) == Min(ChunkSize, size - off)

\* a Send that flushes bw before it returns a read error
FlushOnReadErrorAlways == TRUE

\* if rerr != nil { return fmt.Errorf("read file: %w", rerr) }: bw is not flushed
FlushOnReadError == FALSE

\* one turn of the chunk loop: n, rerr := f.Read(buf); seal and write the
\* block if n > 0; on io.EOF bw.Flush() and return nil; on another error (an
\* *os.File returns n = 0 with it) return the error
SendChunk ==
    /\ sndPc = "stream"
    /\ \/ /\ LET n == ReadLen(sndOff, Len(srcFile))
             IN  IF n > 0
                 THEN LET nonce == nonceFor(sndBase, sndCtr)
                          aad == HexDecode(sman.Hash)
                          ct == Seal(sndKey, nonce, SubSeq(srcFile, sndOff + 1, sndOff + n), aad)
                      IN  /\ sndSeals' = Append(sndSeals, [ctr |-> sndCtr, nonce |-> nonce, aad |-> aad])
                          /\ sndCtr' = NextCtr(sndCtr)
                          /\ sndBuf' = sndBuf \o <<U32Tok(n + GCMTagSize), BytesTok(n + GCMTagSize, ct)>>
                          /\ sndOff' = sndOff + n
                          /\ UNCHANGED <<sndPc, s2r, s2rLog>>
                 ELSE /\ FlushTo(sndBuf)
                      /\ sndBuf' = <<>>
                      /\ sndPc' = "done"
                      /\ UNCHANGED <<sndSeals, sndCtr, sndOff>>
          /\ IF sndOff < Len(srcFile) THEN Did("Send", {"Seal"}) ELSE UNCHANGED cryptoOps
          /\ UNCHANGED <<sndErr, env>>
       \/ \* f.Read fails
          /\ ~env
          /\ env' = TRUE
          /\ SendFail("read file")
          /\ IF FlushOnReadError
             THEN FlushTo(sndBuf) /\ sndBuf' = <<>>
             ELSE UNCHANGED <<sndBuf, s2r, s2rLog>>
          /\ UNCHANGED <<sndSeals, sndCtr, sndOff, cryptoOps>>
    /\ UNCHANGED <<sndImpl, sman, sndMsgType, sndPub, sndPkLen, sndKey, sndBase>>
    /\ UNCHANGED <<rcvVars, r2s, r2sLog, s2rRead, s2rEOF, r2sEOF, faults, srcFile>>
    /\ UNCHANGED <<randReads, calls, pastSeals>>
    /\ UNCHANGED <<dcVars, procVars>>

\* bufio.Writer passes its buffer on when a Write fills it
SendAutoFlush ==
    /\ sndPc = "stream"
    /\ sndBuf # <<>>
    /\ FlushTo(sndBuf)
    /\ sndBuf' = <<>>
    /\ UNCHANGED <<sndImpl, sndPc, sndErr, sman, sndMsgType, sndPub, sndPkLen, sndKey, sndBase,
                   sndCtr, sndSeals, sndOff>>
    /\ UNCHANGED <<rcvVars, r2s, r2sLog, s2rRead, s2rEOF, r2sEOF, faults, srcFile, env>>
    /\ UNCHANGED sessVars
    /\ UNCHANGED <<dcVars, procVars>>

\* ---------------------------------------------------------------- Receive
FsOp(op, path, to) == [op |-> op, path |-> path, to |-> to]

OutPath == OutPathOf(rman.Name)
TmpPath == TmpPathOf(rman.Name)

\* return Manifest{}, "", err   (the deferred out.Close() runs)
RecvFail(e) ==
    /\ rcvPc' = "failed"
    /\ rcvErr' = e
    /\ outOpen' = FALSE

\* the stream has ended and nothing is left to read
AtEOF == s2r = <<>> /\ s2rEOF

\* what Receive's log keeps of one aead.Open call; pos is the number of the
\* frame's ciphertext among the tokens read
OpenRec(ctr, n, aad, ct, ok) ==
    [ctr |-> ctr, nonce |-> n, aad |-> aad, pos |-> s2rRead + 1,
     altered |-> IF ct.kind = "gcm" THEN ct.alt ELSE "none", ok |-> ok]

Consume ==
    /\ s2r' = Tail(s2r)
    /\ s2rRead' = s2rRead + 1

\* priv := GetOrCreateRSA4096(); write 0x01 | uint32(len(pubDER)) | pubDER; bw.Flush()
RecvAnnounce ==
    /\ rcvPc = "announce"
    /\ LET msg == <<ByteTok(TagPubKey),
                    U32Tok(PubDERLen),
                    BytesTok(PubDERLen, MarshalPublicKeyDER(PublicOf(RSAPriv)))>>
       IN  /\ r2s' = r2s \o msg
           /\ r2sLog' = r2sLog \o msg
    /\ rcvPc' = "readVer"
    /\ UNCHANGED <<rcvErr, rcvVer, rcvLen, rcvEncKey, rcvKey, rcvBase, rcvCtr, rcvOpens, rman, written, hdata, outOpen, fs, fsLog>>
    /\ UNCHANGED <<sndVars, s2r, s2rLog, s2rRead, s2rEOF, r2sEOF, faults, srcFile, env>>
    /\ Did("Receive", {"GetOrCreateRSA4096", "MarshalPublicKeyDER"})
    /\ UNCHANGED <<randReads, calls, pastSeals>>
    /\ UNCHANGED <<dcVars, procVars>>

\* ver, err := br.ReadByte(); if ver != 0x02 ...
RecvReadVer ==
    /\ rcvPc = "readVer"
    /\ \/ /\ s2r # <<>>
          /\ Head(s2r).f = "byte"
          /\ Consume
          /\ rcvVer' = Head(s2r).n
          /\ IF UnexpectedTag(Head(s2r).n, TagKeyHeader)
             THEN RecvFail("unexpected header version")
             ELSE rcvPc' = "readEkLen" /\ UNCHANGED <<rcvErr, outOpen>>
       \/ /\ AtEOF
          /\ RecvFail("read header version")
          /\ UNCHANGED <<s2r, s2rRead, rcvVer>>
    /\ UNCHANGED <<rcvLen, rcvEncKey, rcvKey, rcvBase, rcvCtr, rcvOpens, rman, written, hdata, fs, fsLog>>
    /\ UNCHANGED <<sndVars, r2s, s2rLog, r2sLog, s2rEOF, r2sEOF, faults, srcFile, env>>
    /\ UNCHANGED sessVars
    /\ UNCHANGED <<dcVars, procVars>>

\* binary.Read(br, binary.BigEndian, &ekLen); if ekLen == 0 || ekLen > 10_000 ...
RecvReadEkLen ==
    /\ rcvPc = "readEkLen"
    /\ \/ /\ s2r # <<>>
          /\ Head(s2r).f = "u32"
          /\ Consume
          /\ rcvLen' = Head(s2r).n
          /\ IF InvalidLen(Head(s2r).n, MaxEncKeyLen)
             THEN RecvFail("invalid encKey len")
             ELSE rcvPc' = "readEncKey" /\ UNCHANGED <<rcvErr, outOpen>>
       \/ /\ AtEOF
          /\ RecvFail("read encKey len")
          /\ UNCHANGED <<s2r, s2rRead, rcvLen>>
    /\ UNCHANGED <<rcvVer, rcvEncKey, rcvKey, rcvBase, rcvCtr, rcvOpens, rman, written, hdata, fs, fsLog>>
    /\ UNCHANGED <<sndVars, r2s, s2rLog, r2sLog, s2rEOF, r2sEOF, faults, srcFile, env>>
    /\ UNCHANGED sessVars
    /\ UNCHANGED <<dcVars, procVars>>

\* io.ReadFull(br, encKey)
RecvReadEncKey ==
    /\ rcvPc = "readEncKey"
    /\ \/ /\ s2r # <<>>
          /\ Head(s2r).f = "bytes"
          /\ Head(s2r).n = rcvLen
          /\ Consume
          /\ rcvEncKey' = Head(s2r).p
          /\ rcvPc' = "readBase"
          /\ UNCHANGED <<rcvErr, outOpen>>
       \/ \* the stream ends before ekLen bytes have arrived
          /\ s2rEOF
          /\ s2r = <<>> \/ (s2r # <<>> /\ Head(s2r).f = "bytes" /\ Head(s2r).n < rcvLen)
          /\ RecvFail("read encKey")
          /\ UNCHANGED <<s2r, s2rRead, rcvEncKey>>
    /\ UNCHANGED <<rcvVer, rcvLen, rcvKey, rcvBase, rcvCtr, rcvOpens, rman, written, hdata, fs, fsLog>>
    /\ UNCHANGED <<sndVars, r2s, s2rLog, r2sLog, s2rEOF, r2sEOF, faults, srcFile, env>>
    /\ UNCHANGED sessVars
    /\ UNCHANGED <<dcVars, procVars>>

\* io.ReadFull(br, base); key, err := DecryptKeyRSAOAEP(priv, encKey); aead := NewGCM(key)
RecvReadBase ==
    /\ rcvPc = "readBase"
    /\ \/ /\ s2r # <<>>
          /\ Head(s2r).f = "bytes"
          /\ Head(s2r).n = NonceSize
          /\ Head(s2r).p.kind = "nonce"
          /\ Consume
          /\ rcvBase' = Head(s2r).p.b
          /\ IF DecryptOK(RSAPriv, rcvEncKey)
             THEN /\ rcvKey' = rcvEncKey.key
                  /\ rcvPc' = "readManLen"
                  /\ UNCHANGED <<rcvErr, outOpen>>
             ELSE /\ RecvFail("rsa-oaep decrypt")
                  /\ UNCHANGED rcvKey
       \/ /\ AtEOF
          /\ RecvFail("read base nonce")
          /\ UNCHANGED <<s2r, s2rRead, rcvBase, rcvKey>>
    /\ UNCHANGED <<rcvVer, rcvLen, rcvEncKey, rcvCtr, rcvOpens, rman, written, hdata, fs, fsLog>>
    /\ UNCHANGED <<sndVars, r2s, s2rLog, r2sLog, s2rEOF, r2sEOF, faults, srcFile, env>>
    /\ IF s2r # <<>>
       THEN Did("Receive", IF DecryptOK(RSAPriv, rcvEncKey)
                           THEN {"DecryptKeyRSAOAEP", "NewGCM"}
                           ELSE {"DecryptKeyRSAOAEP"})
       ELSE UNCHANGED cryptoOps
    /\ UNCHANGED <<randReads, calls, pastSeals>>
    /\ UNCHANGED <<dcVars, procVars>>

\* binary.Read(br, binary.BigEndian, &clen)   (manifest frame)
RecvReadManLen ==
    /\ rcvPc = "readManLen"
    /\ \/ /\ s2r # <<>>
          /\ Head(s2r).f = "u32"
          /\ Consume
          /\ rcvLen' = Head(s2r).n
          /\ rcvPc' = "readMan"
          /\ UNCHANGED <<rcvErr, outOpen>>
       \/ /\ AtEOF
          /\ RecvFail("read manifest len")
          /\ UNCHANGED <<s2r, s2rRead, rcvLen>>
    /\ UNCHANGED <<rcvVer, rcvEncKey, rcvKey, rcvBase, rcvCtr, rcvOpens, rman, written, hdata, fs, fsLog>>
    /\ UNCHANGED <<sndVars, r2s, s2rLog, r2sLog, s2rEOF, r2sEOF, faults, srcFile, env>>
    /\ UNCHANGED sessVars
    /\ UNCHANGED <<dcVars, procVars>>

\* for written < man.Size
\* a loop that reads a chunk before it tests written < man.Size
LoopPcDoWhile(w, size) == "readChunkLen"

LoopPc(w, size) == IF w < size THEN "readChunkLen" ELSE "close"

\* io.ReadFull(br, cman); aead.Open(nil, nonceFor(), cman, "manifest");
\* json.Unmarshal; os.MkdirAll(PublicDir); os.Create(tmpPath); hex.DecodeString(man.Hash)
RecvReadMan ==
    /\ rcvPc = "readMan"
    /\ \/ /\ s2r # <<>>
          /\ Head(s2r).f = "bytes"
          /\ Head(s2r).n = rcvLen
          /\ Consume
          /\ LET ct == Head(s2r).p
                 n == nonceFor(rcvBase, rcvCtr)
             IN  /\ rcvOpens' = Append(rcvOpens,
                        OpenRec(rcvCtr, n, ManifestAAD, ct, ~OpenFails(rcvKey, n, ct, ManifestAAD)))
                 /\ rcvCtr' = NextCtr(rcvCtr)
                 /\ IF OpenFails(rcvKey, n, ct, ManifestAAD)
                    THEN /\ RecvFail("decrypt manifest")
                         /\ UNCHANGED <<rman, fs, fsLog, env>>
                    ELSE IF ~JSONValid(ct.pt)
                    THEN /\ RecvFail("decode manifest")
                         /\ UNCHANGED <<rman, fs, fsLog, env>>
                    ELSE LET man == JSONUnmarshal(ct.pt)
                             out == OutPathOf(man.Name)
                             tmp == TmpPathOf(man.Name)
                         IN  /\ rman' = man
                             /\ \/ \* os.Create fails
                                   /\ ~env
                                   /\ env' = TRUE
                                   /\ fsLog' = fsLog \o <<FsOp("mkdir", PublicDir, <<>>)>>
                                   /\ RecvFail("create file")
                                   /\ UNCHANGED fs
                                \/ /\ fs' = [p \in DOMAIN fs \cup {tmp} |->
                                               IF p = tmp THEN <<>> ELSE fs[p]]
                                   /\ fsLog' = fsLog \o <<FsOp("mkdir", PublicDir, <<>>),
                                                          FsOp("create", tmp, <<>>)>>
                                   /\ UNCHANGED env
                                   /\ IF ~HexValid(man.Hash)
                                      THEN RecvFail("decode hash")
                                      ELSE /\ rcvPc' = LoopPc(0, man.Size)
                                           /\ outOpen' = TRUE
                                           /\ UNCHANGED rcvErr
       \/ /\ AtEOF
          /\ RecvFail("read manifest")
          /\ UNCHANGED <<s2r, s2rRead, rcvOpens, rcvCtr, rman, fs, fsLog, env>>
    /\ UNCHANGED <<rcvVer, rcvLen, rcvEncKey, rcvKey, rcvBase, written, hdata>>
    /\ UNCHANGED <<sndVars, r2s, s2rLog, r2sLog, s2rEOF, r2sEOF, faults, srcFile>>
    /\ IF s2r # <<>> THEN Did("Receive", {"Open"}) ELSE UNCHANGED cryptoOps
    /\ UNCHANGED <<randReads, calls, pastSeals>>
    /\ UNCHANGED <<dcVars, procVars>>

\* binary.Read(br, binary.BigEndian, &clen)   (chunk frame)
RecvReadChunkLen ==
    /\ rcvPc = "readChunkLen"
    /\ \/ /\ s2r # <<>>
          /\ Head(s2r).f = "u32"
          /\ Consume
          /\ rcvLen' = Head(s2r).n
          /\ rcvPc' = "readChunk"
          /\ UNCHANGED <<rcvErr, outOpen>>
       \/ /\ AtEOF
          /\ RecvFail("read chunk len")
          /\ UNCHANGED <<s2r, s2rRead, rcvLen>>
    /\ UNCHANGED <<rcvVer, rcvEncKey, rcvKey, rcvBase, rcvCtr, rcvOpens, rman, written, hdata, fs, fsLog>>
    /\ UNCHANGED <<sndVars, r2s, s2rLog, r2sLog, s2rEOF, r2sEOF, faults, srcFile, env>>
    /\ UNCHANGED sessVars
    /\ UNCHANGED <<dcVars, procVars>>

\* io.ReadFull(br, ct); pt, err := aead.Open(nil, nonceFor(), ct, hashBytes);
\* out.Write(pt); h.Write(pt); written += len(pt)
RecvReadChunk ==
    /\ rcvPc = "readChunk"
    /\ \/ /\ s2r # <<>>
          /\ Head(s2r).f = "bytes"
          /\ Head(s2r).n = rcvLen
          /\ Consume
          /\ LET ct == Head(s2r).p
                 n == nonceFor(rcvBase, rcvCtr)
                 aad == HexDecode(rman.Hash)
             IN  /\ rcvOpens' = Append(rcvOpens,
                        OpenRec(rcvCtr, n, aad, ct, ~OpenFails(rcvKey, n, ct, aad)))
                 /\ rcvCtr' = NextCtr(rcvCtr)
                 /\ IF OpenFails(rcvKey, n, ct, aad)
                    THEN /\ RecvFail("decrypt chunk")
                         /\ UNCHANGED <<fs, fsLog, hdata, written, env>>
                    ELSE \/ \* out.Write fails
                            /\ ~env
                            /\ env' = TRUE
                            /\ RecvFail("write file")
                            /\ UNCHANGED <<fs, fsLog, hdata, written>>
                         \/ /\ fs' = [fs EXCEPT ![TmpPath] = @ \o ct.pt]
                            /\ fsLog' = Append(fsLog, FsOp("write", TmpPath, <<>>))
                            /\ hdata' = hdata \o ct.pt
                            /\ written' = written + Len(ct.pt)
                            /\ rcvPc' = LoopPc(written + Len(ct.pt), rman.Size)
                            /\ UNCHANGED <<rcvErr, outOpen, env>>
       \/ /\ AtEOF
          /\ RecvFail("read chunk")
          /\ UNCHANGED <<s2r, s2rRead, rcvOpens, rcvCtr, fs, fsLog, hdata, written, env>>
    /\ UNCHANGED <<rcvVer, rcvLen, rcvEncKey, rcvKey, rcvBase, rman>>
    /\ UNCHANGED <<sndVars, r2s, s2rLog, r2sLog, s2rEOF, r2sEOF, faults, srcFile>>
    /\ IF s2r # <<>> THEN Did("Receive", {"Open"}) ELSE UNCHANGED cryptoOps
    /\ UNCHANGED <<randReads, calls, pastSeals>>
    /\ UNCHANGED <<dcVars, procVars>>

\* a Remove that leaves the file in place
RemoveNothing(f, path) == f

\* os.Remove(path) / os.Rename(from, to) on the file system
Remove(f, path) == [p \in DOMAIN f \ {path} |-> f[p]]

Rename(f, from, to) ==
    [p \in (DOMAIN f \ {from}) \cup {to} |-> IF p = to THEN f[from] ELSE f[p]]

\* the comparison with the manifest's hash left out
HashMatchesAlways == TRUE

\* calc := hex.EncodeToString(h.Sum(nil)); calc == man.Hash
HashMatches == HexEncode(SHA256(hdata)) = rman.Hash

\* out.Close()
RecvClose ==
    /\ rcvPc = "close"
    /\ \/ \* out.Close fails
          /\ ~env
          /\ env' = TRUE
          /\ RecvFail("close output")
       \/ /\ outOpen' = FALSE
          /\ rcvPc' = "verify"
          /\ UNCHANGED <<rcvErr, env>>
    /\ UNCHANGED <<rcvVer, rcvLen, rcvEncKey, rcvKey, rcvBase, rcvCtr, rcvOpens,
                   rman, written, hdata, fs, fsLog>>
    /\ UNCHANGED <<sndVars, netVars, srcFile>>
    /\ UNCHANGED sessVars
    /\ UNCHANGED <<dcVars, procVars>>

\* if calc != man.Hash { out.Close(); os.Remove(tmpPath); return hash mismatch }
\* os.Rename(tmpPath, outPath); return man, outPath, nil
RecvVerify ==
    /\ rcvPc = "verify"
    /\ IF ~HashMatches
       THEN /\ fs' = Remove(fs, TmpPath)
            /\ fsLog' = Append(fsLog, FsOp("remove", TmpPath, <<>>))
            /\ RecvFail("hash mismatch")
            /\ UNCHANGED env
       ELSE \/ \* os.Rename fails
               /\ ~env
               /\ env' = TRUE
               /\ RecvFail("finalize file")
               /\ UNCHANGED <<fs, fsLog>>
            \/ /\ fs' = Rename(fs, TmpPath, OutPath)
               /\ fsLog' = Append(fsLog, FsOp("rename", TmpPath, OutPath))
               /\ rcvPc' = "done"
               /\ UNCHANGED <<rcvErr, outOpen, env>>
    /\ UNCHANGED <<rcvVer, rcvLen, rcvEncKey, rcvKey, rcvBase, rcvCtr, rcvOpens,
                   rman, written, hdata>>
    /\ UNCHANGED <<sndVars, netVars, srcFile>>
    /\ Did("Receive", {"sha256"})
    /\ UNCHANGED <<randReads, calls, pastSeals>>
    /\ UNCHANGED <<dcVars, procVars>>

\* ------------------------------------------------------------ environment
\* position i of the stream holds the length of a sealed frame and i + 1 its ciphertext
IsFrameAt(q, i) ==
    /\ i >= 1
    /\ i + 1 <= Len(q)
    /\ q[i].f = "u32"
    /\ q[i + 1].f = "bytes"
    /\ q[i + 1].p.kind = "gcm"

IsChunkFrameAt(q, i) == IsFrameAt(q, i) /\ q[i + 1].p.aad.alg = "sha256"

Fault(kind, i) == [kind |-> kind, pos |-> s2rRead + i + 1]

EnvFrame ==
    /\ UNCHANGED <<sndVars, rcvVars, r2s, s2rLog, r2sLog, s2rRead, s2rEOF, r2sEOF, srcFile>>
    /\ ~env
    /\ env' = TRUE

\* the file is edited between two reads of Send: after the pass that built the
\* manifest and before or among the reads of the chunk loop
ModifyFile ==
    /\ sndPc = "stream"
    /\ ~env
    /\ env' = TRUE
    /\ \E c \in Contents \ {srcFile} : srcFile' = c
    /\ UNCHANGED <<sndVars, rcvVars, netVars>>
    /\ UNCHANGED sessVars
    /\ UNCHANGED <<dcVars, procVars>>

\* bytes of a frame's ciphertext are altered in transit
Tamper ==
    /\ EnvFrame
    /\ \E i \in 1..Len(s2r) :
          /\ IsFrameAt(s2r, i)
          /\ s2r' = [s2r EXCEPT ![i + 1].p.alt = "bytes"]
          /\ faults' = Append(faults, Fault("tamper", i))
    /\ UNCHANGED sessVars
    /\ UNCHANGED <<dcVars, procVars>>

\* a chunk frame arrives sealed under associated data other than the manifest's hash
TamperAAD ==
    /\ EnvFrame
    /\ \E i \in 1..Len(s2r) :
          /\ IsChunkFrameAt(s2r, i)
          /\ s2r' = [s2r EXCEPT ![i + 1].p.aad = SHA256(Foreign),
                                ![i + 1].p.alt = "aad"]
          /\ faults' = Append(faults, Fault("aad", i))
    /\ UNCHANGED sessVars
    /\ UNCHANGED <<dcVars, procVars>>

\* the encrypted session key arrives altered: it is no RSA-OAEP ciphertext under
\* the receiver's public key
TamperKey ==
    /\ EnvFrame
    /\ \E i \in 1..Len(s2r) :
          /\ s2r[i].f = "bytes"
          /\ s2r[i].p.kind = "rsa"
          /\ s2r' = [s2r EXCEPT ![i].p.pub = 0]
          /\ faults' = Append(faults, Fault("key", i - 1))
    /\ UNCHANGED sessVars
    /\ UNCHANGED <<dcVars, procVars>>

\* the connection breaks once Send has returned: what it has not yet delivered
\* beyond some point is lost, and the receiver reads the end of the stream there
CutStream ==
    /\ ~env
    /\ env' = TRUE
    /\ sndPc \in {"done", "failed"}
    /\ ~s2rEOF
    /\ \E k \in 0..(Len(s2r) - 1) :
          /\ s2r' = SubSeq(s2r, 1, k)
          /\ faults' = Append(faults, Fault("cut", k))
    /\ s2rEOF' = TRUE
    /\ UNCHANGED <<sndVars, rcvVars, r2s, s2rLog, r2sLog, s2rRead, r2sEOF, srcFile>>
    /\ UNCHANGED sessVars
    /\ UNCHANGED <<dcVars, procVars>>

\* the stream loses a whole chunk frame
DropFrame ==
    /\ EnvFrame
    /\ \E i \in 1..Len(s2r) :
          /\ IsChunkFrameAt(s2r, i)
          /\ s2r' = SubSeq(s2r, 1, i - 1) \o SubSeq(s2r, i + 2, Len(s2r))
          /\ faults' = Append(faults, Fault("drop", i))
    /\ UNCHANGED sessVars
    /\ UNCHANGED <<dcVars, procVars>>

\* the stream delivers a whole chunk frame twice
DupFrame ==
    /\ EnvFrame
    /\ \E i \in 1..Len(s2r) :
          /\ IsChunkFrameAt(s2r, i)
          /\ s2r' = SubSeq(s2r, 1, i + 1) \o SubSeq(s2r, i, Len(s2r))
          /\ faults' = Append(faults, Fault("dup", i + 2))
    /\ UNCHANGED sessVars
    /\ UNCHANGED <<dcVars, procVars>>

\* the stream swaps two neighbouring chunk frames
SwapFrames ==
    /\ EnvFrame
    /\ \E i \in 1..Len(s2r) :
          /\ IsChunkFrameAt(s2r, i)
          /\ IsChunkFrameAt(s2r, i + 2)
          /\ s2r' = SubSeq(s2r, 1, i - 1) \o SubSeq(s2r, i + 2, i + 3)
                       \o SubSeq(s2r, i, i + 1) \o SubSeq(s2r, i + 4, Len(s2r))
          /\ faults' = Append(faults, Fault("swap", i))
    /\ UNCHANGED sessVars
    /\ UNCHANGED <<dcVars, procVars>>

BadTags == {0, 3}

\* the peer (or the stream) presents another tag byte to Send
BadTagToSender ==
    /\ ~env
    /\ env' = TRUE
    /\ r2s # <<>>
    /\ Head(r2s).f = "byte"
    /\ \E t \in (BadTags \cup {TagKeyHeader}) \ {Head(r2s).n} :
          r2s' = [r2s EXCEPT ![1].n = t]
    /\ faults' = Append(faults, [kind |-> "tagToSender", pos |-> 1])
    /\ UNCHANGED <<sndVars, rcvVars, s2r, s2rLog, r2sLog, s2rRead, s2rEOF, r2sEOF, srcFile>>
    /\ UNCHANGED sessVars
    /\ UNCHANGED <<dcVars, procVars>>

\* the peer (or the stream) presents another tag byte to Receive
BadTagToReceiver ==
    /\ ~env
    /\ env' = TRUE
    /\ s2r # <<>>
    /\ Head(s2r).f = "byte"
    /\ \E t \in (BadTags \cup {TagPubKey}) \ {Head(s2r).n} :
          s2r' = [s2r EXCEPT ![1].n = t]
    /\ faults' = Append(faults, [kind |-> "tagToReceiver", pos |-> s2rRead + 1])
    /\ UNCHANGED <<sndVars, rcvVars, r2s, s2rLog, r2sLog, s2rRead, s2rEOF, r2sEOF, srcFile>>
    /\ UNCHANGED sessVars
    /\ UNCHANGED <<dcVars, procVars>>

\* the peer is not this repository's Send: the manifest it seals under its
\* session key declares another size than the data it has hashed and goes on to
\* stream
ForgedSize ==
    /\ EnvFrame
    /\ \E i \in 1..Len(s2r) :
          /\ IsFrameAt(s2r, i)
          /\ s2r[i + 1].p.aad = ManifestAAD
          /\ \E d \in {-1, 1} :
                s2r' = [s2r EXCEPT ![i + 1].p.pt.json.Size = @ + d]
          /\ faults' = Append(faults, Fault("size", i))
    /\ UNCHANGED sessVars
    /\ UNCHANGED <<dcVars, procVars>>

\* the peer is not this repository's Send: what it seals as the manifest under
\* its session key is no JSON of a Manifest
ForgedJSON ==
    /\ EnvFrame
    /\ \E i \in 1..Len(s2r) :
          /\ IsFrameAt(s2r, i)
          /\ s2r[i + 1].p.aad = ManifestAAD
          /\ s2r' = [s2r EXCEPT ![i + 1].p.pt.wf = FALSE]
          /\ faults' = Append(faults, Fault("json", i))
    /\ UNCHANGED sessVars
    /\ UNCHANGED <<dcVars, procVars>>

\* names a peer other than this repository's Send puts in its manifest: one in
\* the parent directory, an absolute path
HostileNames == {<<".", ".", "/", "e">>, <<"/", "e">>}

\* the peer seals, under its session key, a manifest that names a path of its
\* choice
ForgedName ==
    /\ EnvFrame
    /\ \E i \in 1..Len(s2r) :
          /\ IsFrameAt(s2r, i)
          /\ s2r[i + 1].p.aad = ManifestAAD
          /\ \E nm \in HostileNames :
                LET man == [s2r[i + 1].p.pt.json EXCEPT !.Name = nm]
                    clen == JSONLen(man) + GCMTagSize
                IN  s2r' = [s2r EXCEPT ![i] = U32Tok(clen),
                                       ![i + 1].n = clen,
                                       ![i + 1].p.pt = JSONMarshal(man)]
          /\ faults' = Append(faults, Fault("name", i))
    /\ UNCHANGED sessVars
    /\ UNCHANGED <<dcVars, procVars>>

\* the peer (or the stream) presents another public-key length to Send: zero,
\* the largest length Send accepts, or one more
BadLenToSender ==
    /\ ~env
    /\ env' = TRUE
    /\ r2s # <<>>
    /\ Head(r2s).f = "u32"
    /\ sndPc = "readLen"
    /\ \E n \in {0, MaxPubKeyLen, MaxPubKeyLen + 1} : r2s' = [r2s EXCEPT ![1].n = n]
    /\ faults' = Append(faults, [kind |-> "lenToSender", pos |-> 2])
    /\ UNCHANGED <<sndVars, rcvVars, s2r, s2rLog, r2sLog, s2rRead, s2rEOF, r2sEOF, srcFile>>
    /\ UNCHANGED sessVars
    /\ UNCHANGED <<dcVars, procVars>>

\* the peer (or the stream) presents another encrypted-key length to Receive
BadLenToReceiver ==
    /\ ~env
    /\ env' = TRUE
    /\ s2r # <<>>
    /\ Head(s2r).f = "u32"
    /\ rcvPc = "readEkLen"
    /\ \E n \in {0, MaxEncKeyLen, MaxEncKeyLen + 1} : s2r' = [s2r EXCEPT ![1].n = n]
    /\ faults' = Append(faults, [kind |-> "lenToReceiver", pos |-> s2rRead + 1])
    /\ UNCHANGED <<sndVars, rcvVars, r2s, s2rLog, r2sLog, s2rRead, s2rEOF, r2sEOF, srcFile>>
    /\ UNCHANGED sessVars
    /\ UNCHANGED <<dcVars, procVars>>

\* the caller closes the connection once Send has returned
CloseSender ==
    /\ sndPc \in {"done", "failed"}
    /\ ~s2rEOF
    /\ s2rEOF' = TRUE
    /\ UNCHANGED <<sndVars, rcvVars, s2r, r2s, s2rLog, r2sLog, s2rRead, r2sEOF, faults,
                   srcFile, env>>
    /\ UNCHANGED sessVars
    /\ UNCHANGED <<dcVars, procVars>>

\* the caller closes the connection once Receive has returned
CloseReceiver ==
    /\ rcvPc \in {"done", "failed"}
    /\ ~r2sEOF
    /\ r2sEOF' = TRUE
    /\ UNCHANGED <<sndVars, rcvVars, s2r, r2s, s2rLog, r2sLog, s2rRead, s2rEOF, faults,
                   srcFile, env>>
    /\ UNCHANGED sessVars
    /\ UNCHANGED <<dcVars, procVars>>

\* ----------------------------------------------------------- specification
SendStep ==
    \/ SendBuild
    \/ SendReadTag
    \/ SendReadLen
    \/ SendReadDER
    \/ SendKeyHeader
    \/ SendLegacyHeader
    \/ SendManifest
    \/ SendChunk
    \/ SendAutoFlush

RecvStep ==
    \/ RecvAnnounce
    \/ RecvReadVer
    \/ RecvReadEkLen
    \/ RecvReadEncKey
    \/ RecvReadBase
    \/ RecvReadManLen
    \/ RecvReadMan
    \/ RecvReadChunkLen
    \/ RecvReadChunk
    \/ RecvClose
    \/ RecvVerify

EnvStep ==
    \/ ModifyFile
    \/ Tamper
    \/ TamperAAD
    \/ DropFrame
    \/ DupFrame
    \/ SwapFrames
    \/ BadTagToSender
    \/ BadTagToReceiver
    \/ BadLenToSender
    \/ BadLenToReceiver
    \/ ForgedSize
    \/ ForgedName
    \/ ForgedJSON
    \/ TamperKey
    \/ CutStream
    \/ CloseSender
    \/ CloseReceiver

Next == SendStep \/ RecvStep \/ EnvStep

Spec == Init /\ [][Next]_vars

\* ------------------------------------------------- successive transfers
\* the files sent in a row: an empty one and one of several chunks
SessContents == {c \in Contents : Len(c) \in {0, MaxFileLen} /\ \A i \in 1..Len(c) : c[i] = 0}

\* key and nonce of the seals of the current call of Send
SealsOfCall == [k \in 1..Len(sndSeals) |-> [key |-> sndKey, nonce |-> sndSeals[k].nonce]]

\* Send and Receive have returned and are called again, for the same or another
\* file, on a fresh connection; the receiver's output directory and the
\* process's source of randomness stay
NewCall ==
    /\ sndPc \in {"done", "failed"}
    /\ rcvPc \in {"done", "failed"}
    /\ calls < MaxCalls
    /\ calls' = calls + 1
    /\ pastSeals' = pastSeals \o SealsOfCall
    /\ cryptoOps' = {}
    /\ sndImpl' \in {"rsa", "legacy"}
    /\ srcFile' \in SessContents
    /\ sndPc' = "build"
    /\ sndErr' = ""
    /\ sman' = NoManifest
    /\ sndMsgType' = -1
    /\ sndPub' = 0
    /\ sndPkLen' = 0
    /\ sndKey' = 0
    /\ sndBase' = NoNonce
    /\ sndCtr' = Uint32Zero
    /\ sndSeals' = <<>>
    /\ sndOff' = 0
    /\ sndBuf' = <<>>
    /\ rcvPc' = "announce"
    /\ rcvErr' = ""
    /\ rcvVer' = -1
    /\ rcvLen' = 0
    /\ rcvEncKey' = NoCipher
    /\ rcvKey' = 0
    /\ rcvBase' = NoNonce
    /\ rcvCtr' = Uint32Zero
    /\ rcvOpens' = <<>>
    /\ rman' = NoManifest
    /\ written' = 0
    /\ hdata' = <<>>
    /\ outOpen' = FALSE
    /\ fsLog' = <<>>
    /\ s2r' = <<>>
    /\ r2s' = <<>>
    /\ s2rLog' = <<>>
    /\ r2sLog' = <<>>
    /\ s2rRead' = 0
    /\ s2rEOF' = FALSE
    /\ r2sEOF' = FALSE
    /\ faults' = <<>>
    /\ UNCHANGED <<fs, randReads, env>>
    /\ UNCHANGED <<dcVars, procVars>>

InitSessions == Init /\ srcFile \in SessContents

NextSessions == Next \/ NewCall

SpecSessions == InitSessions /\ [][NextSessions]_vars

\* ------------------------------------------------------------------ dcConn
RECURSIVE Flatten(_)
\* the bytes of a sequence of messages, in order
Flatten(q) == IF q = <<>> THEN <<>> ELSE Head(q) \o Flatten(Tail(q))

\* dc.BufferedAmount() at "w"
BufferedAmount == Len(Flatten(dcOut))

\* a check that never holds the writer back
BelowHighWaterAlways(b) == TRUE

\* c.dc.BufferedAmount() <= c.highWater
BelowHighWater(b) == b <= highWater

\* a closed flag that is never found set
AlreadyClosedNever(e) == FALSE

\* if c.closed   (read under c.mu)
AlreadyClosed(e) == closed[e]

\* a receive that reports a closed channel without looking at its buffer
ChanClosed(q, n) == n > 0

\* b, ok := <-c.msgs with ok false: the channel is closed and its buffer empty
ChanClosedAndEmpty(q, n) == n > 0 /\ q = <<>>

\* a Read that drops what it could not copy
RestNone(c, n) == <<>>

\* c.cur = c.cur[n:]
Rest(c, n) == SubSeq(c, n + 1, Len(c))

\* Write returns (written, err); its locals are gone
WriteReturns(err) ==
    /\ wRet' = err
    /\ wPc' = "idle"
    /\ wP' = <<>>
    /\ wN' = 0
    /\ wWritten' = 0

\* c.Write(p): p is the next k bytes of the stream; written := 0;
\* for len(p) > 0 { n := len(p); if n > max { n = max } ...
WriteCall ==
    /\ wPc = "idle"
    /\ \E k \in wSizes :
          /\ wNext + k <= MaxStream
          /\ wNext' = wNext + k
          /\ IF k = 0
             THEN WriteReturns("nil")
             ELSE /\ wP' = [i \in 1..k |-> wNext + i]
                  /\ wN' = Min(k, max)
                  /\ wWritten' = 0
                  /\ wPc' = "check"
                  /\ wRet' = NoRet
    /\ UNCHANGED <<xferVars, closeVars, readVars, lowCh, dcOut, msgs, omPc, omMsg, panicked, owed, dcEnv>>

\* one turn of the backpressure loop: closed := c.closed (under c.mu);
\* if closed { return written, io.EOF }; if c.dc.BufferedAmount() <= c.highWater { break }
WriteCheck ==
    /\ wPc = "check"
    /\ IF AlreadyClosed("w")
       THEN WriteReturns("EOF")
       ELSE /\ wPc' = IF BelowHighWater(BufferedAmount) THEN "send" ELSE "wait"
            /\ UNCHANGED <<wRet, wP, wN, wWritten>>
    /\ UNCHANGED wNext
    /\ UNCHANGED <<xferVars, closeVars, readVars, lowCh, dcOut, msgs, omPc, omMsg, panicked, owed, dcEnv>>

\* a select without the timer case
TimerNever == FALSE

\* case <-time.After(50 * time.Millisecond): the timer fires
TimerFires == TRUE

\* select { case <-c.lowCh: case <-time.After(50 * time.Millisecond): }
WriteWait ==
    /\ wPc = "wait"
    /\ \/ lowCh["w"] = 1 /\ lowCh' = [lowCh EXCEPT !["w"] = 0]
       \/ TimerFires /\ UNCHANGED lowCh
    /\ wPc' = "check"
    /\ UNCHANGED <<wP, wN, wWritten, wRet, wNext>>
    /\ UNCHANGED <<xferVars, closeVars, readVars, dcOut, msgs, omPc, omMsg, panicked, owed, dcEnv>>

\* if err := c.dc.Send(p[:n]); err != nil { return written, err }
\* written += n; p = p[n:]; and the head of the next turn of for len(p) > 0
WriteSend ==
    /\ wPc = "send"
    /\ IF dcState # "open"
       THEN /\ WriteReturns("send")
            /\ UNCHANGED dcOut
       ELSE /\ dcOut' = Append(dcOut, SubSeq(wP, 1, wN))
            /\ IF Rest(wP, wN) = <<>>
               THEN WriteReturns("nil")
               ELSE /\ wWritten' = wWritten + wN
                    /\ wP' = Rest(wP, wN)
                    /\ wN' = Min(Len(Rest(wP, wN)), max)
                    /\ wPc' = "check"
                    /\ UNCHANGED wRet
    /\ UNCHANGED wNext
    /\ UNCHANGED <<xferVars, closeVars, readVars, lowCh, msgs, omPc, omMsg, panicked, owed, dcEnv>>

\* the channel transmits its oldest buffered message; OnBufferedAmountLow fires
\* at "w" when the buffered amount falls to the threshold
\* (select { case c.lowCh <- struct{}{}: default: }); the message arrives at "r":
\* OnMessage copies it into b and reads c.closed under c.mu
Transmit ==
    /\ dcOut # <<>>
    /\ dcState = "open"
    /\ omPc = "idle"
    /\ ~panicked
    /\ dcOut' = Tail(dcOut)
    /\ IF AlreadyClosed("r")
       THEN UNCHANGED <<omPc, omMsg>>
       ELSE omMsg' = Head(dcOut) /\ omPc' = "push"
    /\ lowCh' = IF BufferedAmount > threshold /\ BufferedAmount - Len(Head(dcOut)) <= threshold
                THEN [lowCh EXCEPT !["w"] = 1]
                ELSE lowCh
    /\ UNCHANGED <<xferVars, closeVars, writeVars, readVars, msgs, panicked, owed, dcEnv>>

\* OnMessage: c.msgs <- b   (blocks while the queue is full; a send on a closed
\* channel panics)
OnMessagePush ==
    /\ omPc = "push"
    /\ ~panicked
    /\ IF msgsCloses["r"] > 0
       THEN panicked' = TRUE /\ UNCHANGED msgs
       ELSE Len(msgs) < QueueCap /\ msgs' = Append(msgs, omMsg) /\ UNCHANGED panicked
    /\ omPc' = "idle"
    /\ omMsg' = <<>>
    /\ UNCHANGED <<xferVars, closeVars, writeVars, readVars, lowCh, dcOut, owed, dcEnv>>

\* c.Read(p) with a buffer of sz bytes
ReadCall ==
    /\ rPc = "idle"
    /\ ~panicked
    /\ \E sz \in rSizes : rLen' = sz
    /\ rPc' = "loop"
    /\ UNCHANGED <<cur, readOut, readEOF>>
    /\ UNCHANGED <<xferVars, closeVars, writeVars, lowCh, dcOut, msgs, omPc, omMsg, panicked, owed, dcEnv>>

\* for len(c.cur) == 0 { b, ok := <-c.msgs; ...; c.cur = b }
ReadRecv ==
    /\ rPc = "loop"
    /\ ~panicked
    /\ cur = <<>>
    /\ msgs # <<>>
    /\ cur' = Head(msgs)
    /\ msgs' = Tail(msgs)
    /\ UNCHANGED <<rPc, rLen, readOut, readEOF>>
    /\ UNCHANGED <<xferVars, closeVars, writeVars, lowCh, dcOut, omPc, omMsg, panicked, owed, dcEnv>>

\* b, ok := <-c.msgs; if !ok { return 0, io.EOF }
ReadEnd ==
    /\ rPc = "loop"
    /\ ~panicked
    /\ cur = <<>>
    /\ ChanClosedAndEmpty(msgs, msgsCloses["r"])
    /\ readEOF' = TRUE
    /\ rPc' = "idle"
    /\ rLen' = 0
    /\ UNCHANGED <<cur, readOut>>
    /\ UNCHANGED <<xferVars, closeVars, writeVars, lowCh, dcOut, msgs, omPc, omMsg, panicked, owed, dcEnv>>

\* n := copy(p, c.cur); c.cur = c.cur[n:]; return n, nil
ReadCopy ==
    /\ rPc = "loop"
    /\ ~panicked
    /\ cur # <<>>
    /\ LET n == Min(rLen, Len(cur))
       IN  /\ readOut' = readOut \o SubSeq(cur, 1, n)
           /\ cur' = Rest(cur, n)
    /\ rPc' = "idle"
    /\ rLen' = 0
    /\ UNCHANGED readEOF
    /\ UNCHANGED <<xferVars, closeVars, writeVars, lowCh, dcOut, msgs, omPc, omMsg, panicked, owed, dcEnv>>

\* the process of end e runs
Alive(e) == e = "r" => ~panicked

\* "r" holds the rest of a message that an earlier Read consumed in part, and
\* queued messages
Held == rPc = "idle" /\ cur # <<>> /\ msgs # <<>>

\* if !c.closed { c.closed = true; close(c.msgs) }   (under c.mu)
CloseOnce(e) ==
    IF AlreadyClosed(e)
    THEN UNCHANGED <<closed, msgsCloses, owed>>
    ELSE /\ closed' = [closed EXCEPT ![e] = TRUE]
         /\ msgsCloses' = [msgsCloses EXCEPT ![e] = @ + 1]
         /\ owed' = IF e = "r" /\ msgsCloses[e] = 0 THEN Held ELSE owed

\* c.Close() up to c.mu.Unlock(): return nil if c.closed, else set it and close(c.msgs)
CloseCall(e) ==
    /\ Alive(e)
    /\ closeCalls[e] < closeCap[e]
    /\ closeCalls' = [closeCalls EXCEPT ![e] = @ + 1]
    /\ CloseOnce(e)
    /\ IF AlreadyClosed(e)
       THEN closeNil' = [closeNil EXCEPT ![e] = @ + 1] /\ UNCHANGED closePending
       ELSE closePending' = [closePending EXCEPT ![e] = TRUE] /\ UNCHANGED closeNil
    /\ UNCHANGED <<dcState, dcCloseCalls, onClosePc>>
    /\ UNCHANGED <<xferVars, writeVars, readVars, lowCh, dcOut, msgs, omPc, omMsg, panicked, dcEnv>>

\* c.Close(): return c.dc.Close()
CloseDC(e) ==
    /\ Alive(e)
    /\ closePending[e]
    /\ closePending' = [closePending EXCEPT ![e] = FALSE]
    /\ dcCloseCalls' = [dcCloseCalls EXCEPT ![e] = @ + 1]
    /\ dcState' = "closed"
    /\ UNCHANGED <<closed, msgsCloses, closeCalls, closeNil, onClosePc>>
    /\ UNCHANGED <<xferVars, writeVars, readVars, lowCh, dcOut, msgs, omPc, omMsg, panicked, owed, dcEnv>>

\* the data channel closes without a Close call of either end
ChannelCloses ==
    /\ dcState = "open"
    /\ dcState' = "closed"
    /\ UNCHANGED <<closed, msgsCloses, closeCalls, closeNil, closePending, dcCloseCalls, onClosePc>>
    /\ UNCHANGED <<xferVars, writeVars, readVars, lowCh, dcOut, msgs, omPc, omMsg, panicked, owed, dcEnv>>

\* OnClose: c.mu.Lock(); if !c.closed { c.closed = true; close(c.msgs) }; c.mu.Unlock()
OnCloseRun(e) ==
    /\ Alive(e)
    /\ dcState = "closed"
    /\ onClosePc[e] = "idle"
    /\ CloseOnce(e)
    /\ onClosePc' = [onClosePc EXCEPT ![e] = "signal"]
    /\ UNCHANGED <<dcState, closeCalls, closeNil, closePending, dcCloseCalls>>
    /\ UNCHANGED <<xferVars, writeVars, readVars, lowCh, dcOut, msgs, omPc, omMsg, panicked, dcEnv>>

\* OnClose: select { case c.lowCh <- struct{}{}: default: }
OnCloseSignal(e) ==
    /\ Alive(e)
    /\ onClosePc[e] = "signal"
    /\ lowCh' = [lowCh EXCEPT ![e] = 1]
    /\ onClosePc' = [onClosePc EXCEPT ![e] = "done"]
    /\ UNCHANGED <<dcState, closed, msgsCloses, closeCalls, closeNil, closePending, dcCloseCalls>>
    /\ UNCHANGED <<xferVars, writeVars, readVars, dcOut, msgs, omPc, omMsg, panicked, owed, dcEnv>>

WriteStep ==
    \/ WriteCall
    \/ WriteCheck
    \/ WriteWait
    \/ WriteSend

\* Read while c.msgs is open
ReadStep ==
    \/ ReadCall
    \/ ReadRecv
    \/ ReadCopy

ChannelStep ==
    \/ Transmit
    \/ OnMessagePush

CloseStep ==
    \/ ChannelCloses
    \/ \E e \in Ends :
          \/ CloseCall(e)
          \/ CloseDC(e)
          \/ OnCloseRun(e)
          \/ OnCloseSignal(e)

\* no transfer runs while the stream adapter is followed
DCTransferIdle == TransferInit /\ sndImpl = "rsa" /\ srcFile = <<>>

\* the data path: Write calls of every size up to MaxWrite, Read calls with
\* buffers of every size up to MaxReadBuf, an open channel
InitDC ==
    /\ DCTransferIdle
    /\ DCInit
    /\ wSizes = 0..MaxWrite
    /\ rSizes = 1..MaxReadBuf
    /\ closeCap = [e \in Ends |-> 0]

NextDC == WriteStep \/ ReadStep \/ ChannelStep

SpecDC == InitDC /\ [][NextDC]_vars

\* closing: one Write call with the whole stream, Read calls byte by byte,
\* Close called up to MaxCloseCalls times at one of the ends while the channel may
\* close at any time
InitDCClose ==
    /\ DCTransferIdle
    /\ DCInit
    /\ wSizes = {MaxStream}
    /\ rSizes = {1}
    /\ closeCap \in {[e \in Ends |-> IF e = f THEN MaxCloseCalls ELSE 0] : f \in Ends}

NextDCClose == NextDC \/ ReadEnd \/ CloseStep

SpecDCClose == InitDCClose /\ [][NextDCClose]_vars

\* a goroutine that can run does run: a Read or Write call that is not blocked
\* goes on, and the 50 ms timer of Write's select fires
SpecDCCloseLive ==
    /\ SpecDCClose
    /\ WF_vars(WriteCheck)
    /\ WF_vars(WriteWait)
    /\ WF_vars(WriteSend)
    /\ WF_vars(ReadRecv)
    /\ WF_vars(ReadEnd)
    /\ WF_vars(ReadCopy)

\* one Write call with the whole stream and Read calls with buffers of
\* MaxReadBuf bytes on an open channel; the goroutine of Write runs whenever it
\* can, and the timer of its select fires
InitDCLive ==
    /\ DCTransferIdle
    /\ DCInit
    /\ wSizes = {MaxStream}
    /\ rSizes = {MaxReadBuf}
    /\ closeCap = [e \in Ends |-> 0]

SpecDCLive ==
    /\ InitDCLive
    /\ [][NextDC]_vars
    /\ WF_vars(WriteCheck)
    /\ WF_vars(WriteWait)
    /\ WF_vars(WriteSend)

\* the times a caller passes as deadline: the zero time and a time to come
Deadlines == {0, 1}

DeadlineFrame ==
    UNCHANGED <<xferVars, closeVars, writeVars, readVars, lowCh, dcOut, msgs, omPc, omMsg,
                panicked, owed, wSizes, rSizes, closeCap, now>>

\* func (c *dcConn) SetDeadline(t time.Time) error { c.rd, c.wd = t, t; return nil }
\* called on both ends of the channel
SetDeadline ==
    /\ \E t \in Deadlines : rd' = t /\ wd' = t
    /\ DeadlineFrame

\* func (c *dcConn) SetReadDeadline(t time.Time) error { c.rd = t; return nil }
SetReadDeadline ==
    /\ \E t \in Deadlines : rd' = t
    /\ UNCHANGED wd
    /\ DeadlineFrame

\* func (c *dcConn) SetWriteDeadline(t time.Time) error { c.wd = t; return nil }
SetWriteDeadline ==
    /\ \E t \in Deadlines : wd' = t
    /\ UNCHANGED rd
    /\ DeadlineFrame

\* the time of the deadline comes
TimePasses ==
    /\ now = 0
    /\ now' = 1
    /\ UNCHANGED <<xferVars, closeVars, writeVars, readVars, lowCh, dcOut, msgs, omPc, omMsg,
                   panicked, owed, wSizes, rSizes, closeCap, rd, wd>>

\* the deadline d is set and has passed
Expired(d) == d # 0 /\ now >= d

\* deadlines: one Write call and Read calls on an open channel whose ends are
\* given deadlines at any time; the goroutines of Write and Read run whenever
\* they can
NextDCDeadline ==
    \/ NextDC
    \/ SetDeadline
    \/ SetReadDeadline
    \/ SetWriteDeadline
    \/ TimePasses

SpecDCDeadline ==
    /\ InitDCLive
    /\ [][NextDCDeadline]_vars
    /\ WF_vars(WriteCheck)
    /\ WF_vars(WriteWait)
    /\ WF_vars(WriteSend)
    /\ WF_vars(ReadRecv)
    /\ WF_vars(ReadCopy)

\* ------------------------------------------------- GetOrCreateRSA4096
\* a locked path that runs f whatever once.done holds
OnceTodoAlways(done) == TRUE

\* doSlow, under once.m: if o.done.Load() == 0 { defer o.done.Store(1); f() }
OnceTodo(done) == ~done

KeyFrame(s) ==
    /\ UNCHANGED <<sndVars, rcvVars, netVars, srcFile, env, sessVars, dcVars, nonceVars, ctrVars, multiVars, isoVars, fnVars, tcpVars, connVars, hsVars>>
    /\ \A t \in Sessions \ {s} : kPc'[t] = kPc[t] /\ kSlow'[t] = kSlow[t] /\ kRet'[t] = kRet[t]

\* Receive of session s calls pcrypto.GetOrCreateRSA4096()
KeyCall(s) ==
    /\ kPc[s] = "idle"
    /\ kPc' = [kPc EXCEPT ![s] = "check"]
    /\ UNCHANGED <<kSlow, kRet, onceDone, onceMu, cachedPriv, onceErr, genStarts, genEnds,
                   privWrites>>
    /\ KeyFrame(s)

\* once.Do: if o.done.Load() == 0 { o.doSlow(f) }
OnceCheck(s) ==
    /\ kPc[s] = "check"
    /\ kPc' = [kPc EXCEPT ![s] = IF onceDone THEN "return" ELSE "lock"]
    /\ UNCHANGED <<kSlow, kRet, onceDone, onceMu, cachedPriv, onceErr, genStarts, genEnds,
                   privWrites>>
    /\ KeyFrame(s)

\* doSlow: o.m.Lock(); then the second test of o.done
OnceLock(s) ==
    /\ kPc[s] = "lock"
    /\ onceMu = 0
    /\ onceMu' = s
    /\ kSlow' = [kSlow EXCEPT ![s] = TRUE]
    /\ IF OnceTodo(onceDone)
       THEN /\ kPc' = [kPc EXCEPT ![s] = "generate"]
            /\ genStarts' = genStarts + 1
       ELSE /\ kPc' = [kPc EXCEPT ![s] = "unlock"]
            /\ UNCHANGED genStarts
    /\ UNCHANGED <<kRet, onceDone, cachedPriv, onceErr, genEnds, privWrites>>
    /\ KeyFrame(s)

\* cachedPriv, onceErr = GenerateRSA4096(): a key no other generation gives, or
\* nil and the error of rsa.GenerateKey
OnceGenerate(s) ==
    /\ kPc[s] = "generate"
    /\ \/ cachedPriv' = genStarts /\ onceErr' = ""
       \/ cachedPriv' = 0 /\ onceErr' = "rsa"
    /\ genEnds' = genEnds + 1
    /\ privWrites' = privWrites + 1
    /\ kPc' = [kPc EXCEPT ![s] = "store"]
    /\ UNCHANGED <<kSlow, kRet, onceDone, onceMu, genStarts>>
    /\ KeyFrame(s)

\* the deferred o.done.Store(1)
OnceStore(s) ==
    /\ kPc[s] = "store"
    /\ onceDone' = TRUE
    /\ kPc' = [kPc EXCEPT ![s] = "unlock"]
    /\ UNCHANGED <<kSlow, kRet, onceMu, cachedPriv, onceErr, genStarts, genEnds, privWrites>>
    /\ KeyFrame(s)

\* the deferred o.m.Unlock()
OnceUnlock(s) ==
    /\ kPc[s] = "unlock"
    /\ onceMu' = 0
    /\ kPc' = [kPc EXCEPT ![s] = "return"]
    /\ UNCHANGED <<kSlow, kRet, onceDone, cachedPriv, onceErr, genStarts, genEnds, privWrites>>
    /\ KeyFrame(s)

\* return cachedPriv, onceErr
KeyReturn(s) ==
    /\ kPc[s] = "return"
    /\ kRet' = [kRet EXCEPT ![s] = <<cachedPriv, onceErr>>]
    /\ kPc' = [kPc EXCEPT ![s] = "done"]
    /\ UNCHANGED <<kSlow, onceDone, onceMu, cachedPriv, onceErr, genStarts, genEnds, privWrites>>
    /\ KeyFrame(s)

InitKey == DCTransferIdle /\ DCInit /\ DCIdle

NextKey ==
    \E s \in Sessions :
        \/ KeyCall(s)
        \/ OnceCheck(s)
        \/ OnceLock(s)
        \/ OnceGenerate(s)
        \/ OnceStore(s)
        \/ OnceUnlock(s)
        \/ KeyReturn(s)

SpecKey == InitKey /\ [][NextKey]_vars

\* ------------------------------------------- nonceFor called concurrently
\* the base nonce of the session
NonceBase == BaseOf(1)

NonceFrame(c) ==
    /\ UNCHANGED <<sndVars, rcvVars, netVars, srcFile, env, sessVars, dcVars, keyVars, ctrVars, multiVars, isoVars, fnVars, tcpVars, connVars, hsVars>>
    /\ \A d \in Callers \ {c} :
          nPc'[d] = nPc[d] /\ nN'[d] = nN[d] /\ nTmp'[d] = nTmp[d] /\ nOut'[d] = nOut[d]

\* n := make([]byte, len(base)); copy(n, base); n[i+0..i+3] = byte(ctr >> ..)
NonceDerive(c) ==
    /\ nPc[c] = "idle"
    /\ Len(nOut[c]) < MaxDerive
    /\ nN' = [nN EXCEPT ![c] = nonceFor(NonceBase, nCtr)]
    /\ nPc' = [nPc EXCEPT ![c] = "load"]
    /\ UNCHANGED <<nCtr, nTmp, nOut>>
    /\ NonceFrame(c)

\* ctr++: the load of ctr
NonceLoad(c) ==
    /\ nPc[c] = "load"
    /\ nTmp' = [nTmp EXCEPT ![c] = nCtr]
    /\ nPc' = [nPc EXCEPT ![c] = "store"]
    /\ UNCHANGED <<nCtr, nN, nOut>>
    /\ NonceFrame(c)

\* ctr++: the store of the loaded value plus one; return n
NonceStore(c) ==
    /\ nPc[c] = "store"
    /\ nCtr' = NextCtr(nTmp[c])
    /\ nOut' = [nOut EXCEPT ![c] = Append(@, nN[c])]
    /\ nN' = [nN EXCEPT ![c] = NoNonce]
    /\ nTmp' = [nTmp EXCEPT ![c] = Uint32Zero]
    /\ nPc' = [nPc EXCEPT ![c] = "idle"]
    /\ NonceFrame(c)

InitNonce == DCTransferIdle /\ DCInit /\ DCIdle

NextNonce == \E c \in Callers : NonceDerive(c) \/ NonceLoad(c) \/ NonceStore(c)

SpecNonce == InitNonce /\ [][NextNonce]_vars

\* ------------------------------------------------ the counter at its width
\* ctr++ on the unsigned integer of CtrBits bits
Incr(c) == (c + 1) % CtrMod

CtrFrame == UNCHANGED <<sndVars, rcvVars, netVars, srcFile, env, sessVars, dcVars, keyVars,
                        nonceVars, multiVars, isoVars, fnVars, tcpVars, connVars, hsVars>>

\* cman := aead.Seal(nil, nonceFor(), manBytes, "manifest")
CtrSealManifest ==
    /\ cPc = "manifest"
    /\ cSeals' = Append(cSeals, cCtr)
    /\ cWire' = Append(cWire, cCtr)
    /\ cCtr' = Incr(cCtr)
    /\ cPc' = "stream"
    /\ UNCHANGED <<cRcvCtr, cOpens>>
    /\ CtrFrame

\* n, rerr := f.Read(buf) with n > 0: ct := aead.Seal(nil, nonceFor(), buf[:n], hashBytes)
CtrSealChunk ==
    /\ cPc = "stream"
    /\ Len(cSeals) < 1 + MaxChunks
    /\ cSeals' = Append(cSeals, cCtr)
    /\ cWire' = Append(cWire, cCtr)
    /\ cCtr' = Incr(cCtr)
    /\ UNCHANGED <<cPc, cRcvCtr, cOpens>>
    /\ CtrFrame

\* rerr == io.EOF: the file has no more blocks
CtrEOF ==
    /\ cPc = "stream"
    /\ cPc' = "done"
    /\ UNCHANGED <<cCtr, cSeals, cWire, cRcvCtr, cOpens>>
    /\ CtrFrame

\* Receive opens the next frame with its own nonceFor()
CtrOpen ==
    /\ cWire # <<>>
    /\ Head(cWire) = cRcvCtr
    /\ cWire' = Tail(cWire)
    /\ cRcvCtr' = Incr(cRcvCtr)
    /\ cOpens' = cOpens + 1
    /\ UNCHANGED <<cPc, cCtr, cSeals>>
    /\ CtrFrame

InitCtr == DCTransferIdle /\ DCInit /\ DCIdle

NextCtr32 == CtrSealManifest \/ CtrSealChunk \/ CtrEOF \/ CtrOpen

SpecCtr == InitCtr /\ [][NextCtr32]_vars

\* ------------------------------------ several transfers on one connection
\* a message of transfer k on the connection; part is "tag", "len", "der" for
\* the announcement, "H" for the key-delivery message, "M" for the manifest
\* frame (size chunks follow it), "C" for a chunk frame
MTok(k, part, size) == [t |-> k, part |-> part, size |-> size]

MultiFrame == UNCHANGED <<sndVars, rcvVars, netVars, srcFile, env, sessVars, dcVars, keyVars,
                          nonceVars, ctrVars, isoVars, fnVars, tcpVars, connVars, hsVars>>

\* a Send that writes its header without reading the announcement
SendStartsWriting(k) == "header"

\* Send, after BuildManifest: br.ReadByte() of the receiver's announcement
SendStartsAt(k) == "readTag"

\* Send(conn, path) is called: BuildManifest; br := bufio.NewReader(conn)
MultiSendCall ==
    /\ mSndPc = "idle"
    /\ mSndK < MaxCalls
    /\ mSndK' = mSndK + 1
    /\ mSndSize' \in 0..MaxMultiChunks
    /\ mSndSent' = 0
    /\ mSndPc' = SendStartsAt(mSndK + 1)
    /\ UNCHANGED <<mS2R, mR2S, mSbr, mRbr, mSndOk, mRcvPc, mRcvK, mRcvSize, mRcvGot, mRcvOk,
                   mLost>>
    /\ MultiFrame

\* br of Send is empty and a read is pending: one conn.Read takes some of what
\* the connection holds
MultiSendFill ==
    /\ mSndPc \in {"readTag", "readLen", "readDER"}
    /\ mSbr = <<>>
    /\ \E n \in 1..Len(mR2S) :
          /\ mSbr' = SubSeq(mR2S, 1, n)
          /\ mR2S' = SubSeq(mR2S, n + 1, Len(mR2S))
    /\ UNCHANGED <<mS2R, mRbr, mSndPc, mSndK, mSndSize, mSndSent, mSndOk,
                   mRcvPc, mRcvK, mRcvSize, mRcvGot, mRcvOk, mLost>>
    /\ MultiFrame

\* br.ReadByte(), binary.Read(br, &pkLen), io.ReadFull(br, pkDER)
MultiSendRead ==
    /\ mSndPc \in {"readTag", "readLen", "readDER"}
    /\ mSbr # <<>>
    /\ mSbr' = Tail(mSbr)
    /\ LET want == IF mSndPc = "readTag" THEN "tag"
                    ELSE IF mSndPc = "readLen" THEN "len" ELSE "der"
       IN  mSndPc' = IF Head(mSbr) # MTok(mSndK, want, 0) THEN "failed"
                     ELSE IF mSndPc = "readTag" THEN "readLen"
                     ELSE IF mSndPc = "readLen" THEN "readDER" ELSE "header"
    /\ UNCHANGED <<mS2R, mR2S, mRbr, mSndK, mSndSize, mSndSent, mSndOk,
                   mRcvPc, mRcvK, mRcvSize, mRcvGot, mRcvOk, mLost>>
    /\ MultiFrame

\* the key-delivery message, then the manifest frame, each followed by bw.Flush()
MultiSendWrite ==
    /\ mSndPc \in {"header", "manifest"}
    /\ mS2R' = Append(mS2R, IF mSndPc = "header" THEN MTok(mSndK, "H", 0)
                            ELSE MTok(mSndK, "M", mSndSize))
    /\ mSndPc' = IF mSndPc = "header" THEN "manifest" ELSE "stream"
    /\ UNCHANGED <<mR2S, mSbr, mRbr, mSndK, mSndSize, mSndSent, mSndOk,
                   mRcvPc, mRcvK, mRcvSize, mRcvGot, mRcvOk, mLost>>
    /\ MultiFrame

\* one turn of the chunk loop; at io.EOF bw.Flush() and return nil
MultiSendChunk ==
    /\ mSndPc = "stream"
    /\ IF mSndSent < mSndSize
       THEN /\ mS2R' = Append(mS2R, MTok(mSndK, "C", 0))
            /\ mSndSent' = mSndSent + 1
            /\ UNCHANGED <<mSndPc, mSndOk, mSbr, mLost>>
       ELSE /\ mSndPc' = "idle"
            /\ mSndOk' = mSndOk + 1
            /\ mLost' = mLost \o mSbr
            /\ mSbr' = <<>>
            /\ UNCHANGED <<mS2R, mSndSent>>
    /\ UNCHANGED <<mR2S, mRbr, mSndK, mSndSize, mRcvPc, mRcvK, mRcvSize, mRcvGot, mRcvOk>>
    /\ MultiFrame

\* Receive(conn) is called: br := bufio.NewReader(conn); the announcement
\* 0x01 | uint32(len(pubDER)) | pubDER; bw.Flush()
MultiRecvCall ==
    /\ mRcvPc = "idle"
    /\ mRcvK < MaxCalls
    /\ mRcvK' = mRcvK + 1
    /\ mR2S' = mR2S \o <<MTok(mRcvK + 1, "tag", 0), MTok(mRcvK + 1, "len", 0),
                          MTok(mRcvK + 1, "der", 0)>>
    /\ mRcvSize' = 0
    /\ mRcvGot' = 0
    /\ mRcvPc' = "readH"
    /\ UNCHANGED <<mS2R, mSbr, mRbr, mSndPc, mSndK, mSndSize, mSndSent, mSndOk, mRcvOk, mLost>>
    /\ MultiFrame

\* br of Receive is empty and a read is pending
MultiRecvFill ==
    /\ mRcvPc \in {"readH", "readM", "readC"}
    /\ mRbr = <<>>
    /\ \E n \in 1..Len(mS2R) :
          /\ mRbr' = SubSeq(mS2R, 1, n)
          /\ mS2R' = SubSeq(mS2R, n + 1, Len(mS2R))
    /\ UNCHANGED <<mR2S, mSbr, mSndPc, mSndK, mSndSize, mSndSent, mSndOk,
                   mRcvPc, mRcvK, mRcvSize, mRcvGot, mRcvOk, mLost>>
    /\ MultiFrame

\* for written < man.Size after the manifest or a chunk; past the loop Receive
\* verifies, renames and returns, and its br goes with it
MultiRecvNext(size, got) == IF got < size THEN "readC" ELSE "return"

\* the reads of the header, of the manifest frame and of a chunk frame
MultiRecvRead ==
    /\ mRcvPc \in {"readH", "readM", "readC"}
    /\ mRbr # <<>>
    /\ mRbr' = Tail(mRbr)
    /\ LET tok == Head(mRbr)
           want == IF mRcvPc = "readH" THEN "H" ELSE IF mRcvPc = "readM" THEN "M" ELSE "C"
       IN  IF tok.t # mRcvK \/ tok.part # want
           THEN /\ mRcvPc' = "failed"
                /\ UNCHANGED <<mRcvSize, mRcvGot>>
           ELSE IF want = "H"
           THEN /\ mRcvPc' = "readM"
                /\ UNCHANGED <<mRcvSize, mRcvGot>>
           ELSE IF want = "M"
           THEN /\ mRcvSize' = tok.size
                /\ mRcvPc' = MultiRecvNext(tok.size, 0)
                /\ UNCHANGED mRcvGot
           ELSE /\ mRcvGot' = mRcvGot + 1
                /\ mRcvPc' = MultiRecvNext(mRcvSize, mRcvGot + 1)
                /\ UNCHANGED mRcvSize
    /\ UNCHANGED <<mS2R, mR2S, mSbr, mSndPc, mSndK, mSndSize, mSndSent, mSndOk, mRcvK, mRcvOk,
                   mLost>>
    /\ MultiFrame

\* return man, outPath, nil
MultiRecvReturn ==
    /\ mRcvPc = "return"
    /\ mRcvPc' = "idle"
    /\ mRcvOk' = mRcvOk + 1
    /\ mLost' = mLost \o mRbr
    /\ mRbr' = <<>>
    /\ UNCHANGED <<mS2R, mR2S, mSbr, mSndPc, mSndK, mSndSize, mSndSent, mSndOk,
                   mRcvK, mRcvSize, mRcvGot>>
    /\ MultiFrame

InitMulti == DCTransferIdle /\ DCInit /\ DCIdle

NextMulti ==
    \/ MultiSendCall
    \/ MultiSendFill
    \/ MultiSendRead
    \/ MultiSendWrite
    \/ MultiSendChunk
    \/ MultiRecvCall
    \/ MultiRecvFill
    \/ MultiRecvRead
    \/ MultiRecvReturn

SpecMulti == InitMulti /\ [][NextMulti]_vars

\* ------------------------------------------ concurrent Receive sessions
\* the names the senders of the concurrent sessions put in their manifests
IsoNames == {<<"a">>, <<"b", "b">>}

\* len(line) of printProgress: the fixed parts of the format and the name
LineLen(name) == 60 + Len(name)

IsoFrame(s) ==
    /\ UNCHANGED <<sndVars, rcvVars, netVars, srcFile, env, sessVars, dcVars, keyVars,
                   nonceVars, ctrVars, multiVars, fnVars, tcpVars, connVars, hsVars>>
    /\ \A t \in IsoSessions \ {s} :
          /\ iPc'[t] = iPc[t]
          /\ iName'[t] = iName[t]
          /\ iSize'[t] = iSize[t]
          /\ iWritten'[t] = iWritten[t]
          /\ iSeen'[t] = iSeen[t]

Wrote(s, kind, target) == iWrites' = iWrites \cup {<<s, kind, target>>}

\* the manifest is opened; outPath := filepath.Join(PublicDir, man.Name);
\* tmpPath := outPath + ".part"; out := os.Create(tmpPath)
IsoCreate(s) ==
    /\ iPc[s] = "manifest"
    /\ \E nm \in IsoNames, sz \in 0..MaxIsoChunks :
          /\ iName' = [iName EXCEPT ![s] = nm]
          /\ iSize' = [iSize EXCEPT ![s] = sz]
          /\ Wrote(s, "file", TmpPathOf(nm))
          /\ iPc' = [iPc EXCEPT ![s] = IF sz > 0 THEN "chunk" ELSE "final"]
    /\ UNCHANGED <<iWritten, iSeen, lastProgressLen>>
    /\ IsoFrame(s)

\* out.Write(pt); written += len(pt); printProgress(...) is due
IsoWriteChunk(s) ==
    /\ iPc[s] = "chunk"
    /\ iWritten' = [iWritten EXCEPT ![s] = @ + 1]
    /\ Wrote(s, "file", TmpPathOf(iName[s]))
    /\ iPc' = [iPc EXCEPT ![s] = "progress"]
    /\ UNCHANGED <<iName, iSize, iSeen, lastProgressLen>>
    /\ IsoFrame(s)

\* printProgress: if lastProgressLen > len(line) { pad }; fmt.Print
IsoProgressRead(s) ==
    /\ iPc[s] \in {"progress", "final"}
    /\ iSeen' = [iSeen EXCEPT ![s] = lastProgressLen]
    /\ iPc' = [iPc EXCEPT ![s] = IF iPc[s] = "progress" THEN "progressSet" ELSE "finalSet"]
    /\ UNCHANGED <<iName, iSize, iWritten, lastProgressLen, iWrites>>
    /\ IsoFrame(s)

\* printProgress: lastProgressLen = len(line); if done >= total { lastProgressLen = 0 }
IsoProgressWrite(s) ==
    /\ iPc[s] \in {"progressSet", "finalSet"}
    /\ lastProgressLen' = IF iWritten[s] >= iSize[s] THEN 0 ELSE LineLen(iName[s])
    /\ Wrote(s, "var", "lastProgressLen")
    /\ iPc' = [iPc EXCEPT ![s] = IF iPc[s] = "finalSet" THEN "verify"
                                 ELSE IF iWritten[s] < iSize[s] THEN "chunk" ELSE "final"]
    /\ UNCHANGED <<iName, iSize, iWritten, iSeen>>
    /\ IsoFrame(s)

\* the hash matches: os.Rename(tmpPath, outPath); return
IsoRename(s) ==
    /\ iPc[s] = "verify"
    /\ Wrote(s, "file", TmpPathOf(iName[s]))
    /\ iPc' = [iPc EXCEPT ![s] = "done"]
    /\ UNCHANGED <<iName, iSize, iWritten, iSeen, lastProgressLen>>
    /\ IsoFrame(s)

InitIso == DCTransferIdle /\ DCInit /\ DCIdle

NextIso ==
    \E s \in IsoSessions :
        \/ IsoCreate(s)
        \/ IsoWriteChunk(s)
        \/ IsoProgressRead(s)
        \/ IsoProgressWrite(s)
        \/ IsoRename(s)

SpecIso == InitIso /\ [][NextIso]_vars

\* ----------------------------------------------------------- fileName
PathChars == {"a", "/", "\\"}

RECURSIVE PathsUpTo(_)
PathsUpTo(n) ==
    IF n = 0 THEN {<<>>}
    ELSE LET shorter == PathsUpTo(n - 1)
         IN  shorter \cup {Append(q, c) : q \in shorter, c \in PathChars}

\* fileName(path) for any path of up to MaxPathLen characters
FileNameCall ==
    /\ \E path \in PathsUpTo(MaxPathLen) :
          /\ fnPath' = path
          /\ fnOut' = fileName(path)
    /\ UNCHANGED <<sndVars, rcvVars, netVars, srcFile, env, sessVars, dcVars, keyVars,
                   nonceVars, ctrVars, multiVars, isoVars, tcpVars, connVars, hsVars>>

InitFn == DCTransferIdle /\ DCInit /\ DCIdle

NextFn == FileNameCall

SpecFn == InitFn /\ [][NextFn]_vars

\* ------------------------------------------------ ListenAndAcceptOnce
\* A line is a sequence of pieces: the words "HELLO" and "P2P/1", a space, and
\* the letter "p". The expected password is the word p.
LineChars == {"HELLO", "P2P/1", " ", "p"}
ExpectedPassword == <<"p">>
HelloPrefix == <<"HELLO", " ">>
MagicPrefix == <<"P2P/1", " ">>

RECURSIVE LinesUpTo(_)
LinesUpTo(n) ==
    IF n = 0 THEN {<<>>}
    ELSE LET shorter == LinesUpTo(n - 1)
         IN  shorter \cup {Append(q, c) : q \in shorter, c \in LineChars}

\* strings.TrimSpace
RECURSIVE TrimLeft(_)
TrimLeft(str) == IF str # <<>> /\ Head(str) = " " THEN TrimLeft(Tail(str)) ELSE str

RECURSIVE TrimRight(_)
TrimRight(str) ==
    IF str # <<>> /\ str[Len(str)] = " " THEN TrimRight(SubSeq(str, 1, Len(str) - 1)) ELSE str

TrimSpace(str) == TrimRight(TrimLeft(str))

\* strings.HasPrefix
HasPrefix(str, pre) == Len(str) >= Len(pre) /\ SubSeq(str, 1, Len(pre)) = pre

\* str[n:]
From(str, n) == SubSeq(str, n + 1, Len(str))

\* strings.Fields: the maximal runs of non-space characters
RECURSIVE FieldsFrom(_, _)
FieldsFrom(str, word) ==
    IF str = <<>> THEN (IF word = <<>> THEN <<>> ELSE <<word>>)
    ELSE IF Head(str) = " "
    THEN (IF word = <<>> THEN <<>> ELSE <<word>>) \o FieldsFrom(Tail(str), <<>>)
    ELSE FieldsFrom(Tail(str), Append(word, Head(str)))

Fields(str) == FieldsFrom(str, <<>>)

\* a comparison that lets every password pass
PasswordAny(provided, expected) == TRUE

\* providedPassword != expectedPassword, negated
PasswordOK(provided, expected) == provided = expected

\* the handshake of ListenAndAcceptOnce on the line read: "close" for the three
\* silent rejections, "deny" for a wrong password, "welcome" otherwise
Handshake(raw) ==
    LET line == TrimSpace(raw)
    IN  IF ~HasPrefix(line, HelloPrefix) \/ Len(line) <= Len(HelloPrefix) THEN "close"
        ELSE LET rest == TrimSpace(From(line, Len(HelloPrefix)))
             IN  IF ~HasPrefix(rest, MagicPrefix) \/ Len(rest) <= Len(MagicPrefix) THEN "close"
                 ELSE LET parts == Fields(TrimSpace(From(rest, Len(MagicPrefix))))
                      IN  IF Len(parts) < 2 THEN "close"
                          ELSE IF ~PasswordOK(parts[2], ExpectedPassword) THEN "deny"
                          ELSE "welcome"

\* peerName := parts[0]
PeerNameOf(raw) ==
    Fields(TrimSpace(From(TrimSpace(From(TrimSpace(raw), Len(HelloPrefix))),
                          Len(MagicPrefix))))[1]

TcpFrame == UNCHANGED <<sndVars, rcvVars, netVars, srcFile, env, sessVars, dcVars, keyVars,
                        nonceVars, ctrVars, multiVars, isoVars, fnVars, connVars, hsVars>>

\* one turn of the loop: conn := ln.Accept(); line, _ := r.ReadString('\n')
\* (the error is dropped: the line may lack its '\n'); then the checks, and
\* either conn.Close() or the WELCOME reply and return conn
TcpServe ==
    /\ tPc = "accept"
    /\ \E raw \in LinesUpTo(MaxLineLen) :
          LET res == Handshake(raw)
          IN  /\ tLine' = raw
              /\ tReply' = IF res = "deny" THEN "DENY"
                           ELSE IF res = "welcome" THEN "WELCOME" ELSE ""
              /\ tClosed' = (res # "welcome")
              /\ tPc' = IF res = "welcome" THEN "returned" ELSE "rejected"
              /\ tPeer' = IF res = "welcome" THEN PeerNameOf(raw) ELSE <<>>
    /\ TcpFrame

\* continue: the loop is at ln.Accept() again, the last connection forgotten
TcpContinue ==
    /\ tPc = "rejected"
    /\ tPc' = "accept"
    /\ tLine' = <<>>
    /\ tReply' = ""
    /\ tClosed' = FALSE
    /\ tPeer' = <<>>
    /\ TcpFrame

\* ln.Accept() returns an error: return nil, "", err
TcpAcceptFails ==
    /\ tPc = "accept"
    /\ tPc' = "failed"
    /\ tLine' = <<>>
    /\ tReply' = ""
    /\ tClosed' = FALSE
    /\ tPeer' = <<>>
    /\ TcpFrame

InitTcp == DCTransferIdle /\ DCInit /\ DCIdle

NextTcp == TcpServe \/ TcpContinue \/ TcpAcceptFails

SpecTcp == InitTcp /\ [][NextTcp]_vars

\* ------------------------------------------------------ Peer.connected
ConnFrame(i) ==
    /\ UNCHANGED <<sndVars, rcvVars, netVars, srcFile, env, sessVars, dcVars, keyVars,
                   nonceVars, ctrVars, multiVars, isoVars, fnVars, tcpVars, hsVars>>
    /\ \A k \in Invocations \ {i} : cbPc'[k] = cbPc[k]

\* select { case <-connected: ... }: the receive is ready, connected was closed
SelectClosed(n) == n > 0

\* pion runs the callback in a goroutine of its own: OnOpen, or
\* OnICEConnectionStateChange, which acts if state is Connected or Completed
CbFire(i) ==
    /\ ~connPanic
    /\ cbPc[i] = "idle"
    /\ cbPc' = [cbPc EXCEPT ![i] = IF i = "checking" THEN "done" ELSE "select"]
    /\ UNCHANGED <<connCloses, connPanic, waitPc>>
    /\ ConnFrame(i)

\* select { case <-connected: default: ... }
CbSelect(i) ==
    /\ ~connPanic
    /\ cbPc[i] = "select"
    /\ cbPc' = [cbPc EXCEPT ![i] = IF SelectClosed(connCloses) THEN "done" ELSE "close"]
    /\ UNCHANGED <<connCloses, connPanic, waitPc>>
    /\ ConnFrame(i)

\* default: close(connected)   (closing a closed channel panics)
CbClose(i) ==
    /\ ~connPanic
    /\ cbPc[i] = "close"
    /\ connCloses' = connCloses + 1
    /\ connPanic' = (connCloses > 0)
    /\ cbPc' = [cbPc EXCEPT ![i] = "done"]
    /\ UNCHANGED waitPc
    /\ ConnFrame(i)

\* a caller receives from p.Connected(): the receive returns once the channel
\* is closed, and every later receive returns too
ConnectedRecv ==
    /\ ~connPanic
    /\ connCloses > 0
    /\ waitPc' = "through"
    /\ UNCHANGED <<cbPc, connCloses, connPanic>>
    /\ UNCHANGED <<sndVars, rcvVars, netVars, srcFile, env, sessVars, dcVars, keyVars,
                   nonceVars, ctrVars, multiVars, isoVars, fnVars, tcpVars, hsVars>>

InitConn == DCTransferIdle /\ DCInit /\ DCIdle

NextConn ==
    \/ \E i \in Invocations : CbFire(i) \/ CbSelect(i) \/ CbClose(i)
    \/ ConnectedRecv

SpecConn == InitConn /\ [][NextConn]_vars

\* -------------------------------------- DialAndHandshake, ListenAndAcceptOnce
Other(e) == IF e = "dialer" THEN "listener" ELSE "dialer"

\* the lines of the handshake and the receiver's announcement, a token per part
HelloLine == <<"HELLO", " ", "P2P/1", " ", "name", " ", "password", "\n">>
WelcomeLine == <<"WELCOME", " ", "P2P/1", " ", "name", "\n">>
Announcement == <<"0x01", "len", "der">>

HasNewline(b) == \E k \in 1..Len(b) : b[k] = "\n"

\* what follows the first '\n' in b
AfterLine(b) ==
    LET k == CHOOSE k \in 1..Len(b) : b[k] = "\n" /\ \A j \in 1..(k - 1) : b[j] # "\n"
    IN  SubSeq(b, k + 1, Len(b))

\* r.ReadString fills r's buffer with whatever conn.Read returns: any non-empty
\* prefix of what has arrived
FillAny(q) == 1..Len(q)

HsFrame(e) ==
    /\ UNCHANGED <<sndVars, rcvVars, netVars, srcFile, env, sessVars, dcVars, keyVars,
                   nonceVars, ctrVars, multiVars, isoVars, fnVars, tcpVars, connVars>>

\* DialAndHandshake: conn.Write([]byte("HELLO " + ... + "\n")); r := bufio.NewReader(conn)
DialHello ==
    /\ hsPc["dialer"] = "start"
    /\ hsNet' = [hsNet EXCEPT !["listener"] = @ \o HelloLine]
    /\ hsPc' = [hsPc EXCEPT !["dialer"] = "readLine"]
    /\ UNCHANGED <<hsRole, hsConn, hsBuf, hsLost, hsFirst>>
    /\ HsFrame("dialer")

\* r.ReadString('\n'): one fill of r's buffer
HsFill(e) ==
    /\ hsPc[e] = "readLine"
    /\ ~HasNewline(hsBuf[e])
    /\ \E k \in FillAny(hsConn[e]) :
          /\ hsBuf' = [hsBuf EXCEPT ![e] = @ \o SubSeq(hsConn[e], 1, k)]
          /\ hsConn' = [hsConn EXCEPT ![e] = SubSeq(@, k + 1, Len(@))]
    /\ UNCHANGED <<hsNet, hsPc, hsRole, hsLost, hsFirst>>
    /\ HsFrame(e)

\* ListenAndAcceptOnce: the line is read; conn.Write([]byte("WELCOME ...\n"));
\* return conn, peerName, nil   (r and what it holds are dropped)
ListenReturn ==
    /\ hsPc["listener"] = "readLine"
    /\ HasNewline(hsBuf["listener"])
    /\ hsNet' = [hsNet EXCEPT !["dialer"] = @ \o WelcomeLine]
    /\ hsLost' = [hsLost EXCEPT !["listener"] = AfterLine(hsBuf["listener"])]
    /\ hsPc' = [hsPc EXCEPT !["listener"] = "handed"]
    /\ UNCHANGED <<hsRole, hsConn, hsBuf, hsFirst>>
    /\ HsFrame("listener")

\* DialAndHandshake: the reply is read; return conn, peer, nil
DialReturn ==
    /\ hsPc["dialer"] = "readLine"
    /\ HasNewline(hsBuf["dialer"])
    /\ hsLost' = [hsLost EXCEPT !["dialer"] = AfterLine(hsBuf["dialer"])]
    /\ hsPc' = [hsPc EXCEPT !["dialer"] = "handed"]
    /\ UNCHANGED <<hsRole, hsNet, hsConn, hsBuf, hsFirst>>
    /\ HsFrame("dialer")

\* the side calls Receive(conn): 0x01 | uint32(len) | pubDER, bw.Flush()
HsReceive(e) ==
    /\ hsPc[e] = "handed"
    /\ hsRole[Other(e)] # "recv"
    /\ hsRole' = [hsRole EXCEPT ![e] = "recv"]
    /\ hsNet' = [hsNet EXCEPT ![Other(e)] = @ \o Announcement]
    /\ hsPc' = [hsPc EXCEPT ![e] = "announced"]
    /\ UNCHANGED <<hsConn, hsBuf, hsLost, hsFirst>>
    /\ HsFrame(e)

\* the side calls Send(conn, filePath): br := bufio.NewReader(conn)
HsSend(e) ==
    /\ hsPc[e] = "handed"
    /\ hsRole[Other(e)] # "send"
    /\ hsRole' = [hsRole EXCEPT ![e] = "send"]
    /\ hsPc' = [hsPc EXCEPT ![e] = "readTag"]
    /\ UNCHANGED <<hsNet, hsConn, hsBuf, hsLost, hsFirst>>
    /\ HsFrame(e)

\* Send: msgType, err := br.ReadByte()
HsSendReadByte(e) ==
    /\ hsPc[e] = "readTag"
    /\ hsConn[e] # <<>>
    /\ hsFirst' = Head(hsConn[e])
    /\ hsConn' = [hsConn EXCEPT ![e] = Tail(@)]
    /\ hsPc' = [hsPc EXCEPT ![e] = "gotTag"]
    /\ UNCHANGED <<hsNet, hsRole, hsBuf, hsLost>>
    /\ HsFrame(e)

\* TCP delivers some of the bytes written towards side e
HsDeliver(e) ==
    /\ \E k \in 1..Len(hsNet[e]) :
          /\ hsConn' = [hsConn EXCEPT ![e] = @ \o SubSeq(hsNet[e], 1, k)]
          /\ hsNet' = [hsNet EXCEPT ![e] = SubSeq(@, k + 1, Len(@))]
    /\ UNCHANGED <<hsPc, hsRole, hsBuf, hsLost, hsFirst>>
    /\ HsFrame(e)

InitHs == DCTransferIdle /\ DCInit /\ DCIdle

NextHs ==
    \/ DialHello
    \/ ListenReturn
    \/ DialReturn
    \/ \E e \in Sides : HsFill(e) \/ HsReceive(e) \/ HsSend(e) \/ HsSendReadByte(e) \/ HsDeliver(e)

SpecHs == InitHs /\ [][NextHs]_vars

TypeOK ==
    /\ sndImpl \in {"rsa", "legacy"}
    /\ sndPc \in {"build", "readTag", "readLen", "readDER", "header", "legacyHeader",
                  "manifest", "stream", "done", "failed"}
    /\ rcvPc \in {"announce", "readVer", "readEkLen", "readEncKey", "readBase",
                  "readManLen", "readMan", "readChunkLen", "readChunk", "close", "verify",
                  "done", "failed"}
    /\ sndCtr \in [1..4 -> 0..255]
    /\ rcvCtr \in [1..4 -> 0..255]
    /\ env \in BOOLEAN

\* ------------------------------------------------------------------ claims
Returned(pc) == pc \in {"done", "failed"}

OpIn(log, op) == \E k \in 1..Len(log) : log[k].op = op
Renamed == OpIn(fsLog, "rename")
Created == OpIn(fsLog, "create")

\* the path the sender's manifest names in the output directory
FinalPath == OutPathOf(fileName(FilePath))

\* the files of the receiver other than temporary .part files
FinalView == [p \in {q \in DOMAIN fs : q[Len(q)] # ".part"} |-> fs[p]]

\* everything Send has written to bw, flushed or not
SndWritten == s2rLog \o sndBuf

\* the sealed frames among a sequence of tokens
FramesIn(q) == {i \in 1..Len(q) : q[i].f = "bytes" /\ q[i].p.kind = "gcm"}

\* the four bytes of a small number k, most significant first
BigEndian(k) == <<(k \div 16777216) % 256, (k \div 65536) % 256, (k \div 256) % 256, k % 256>>

\* C1, as claimed: round trip. Whenever Send and Receive have both returned on a
\* stream without faults, neither returned an error, the file at
\* public/<manifest.name> equals the source file and the returned manifest's hash
\* is the SHA-256 of that output file.
C1_RoundTrip ==
    (~env /\ Returned(sndPc) /\ Returned(rcvPc)) =>
        /\ sndPc = "done" /\ sndErr = ""
        /\ rcvPc = "done" /\ rcvErr = ""
        /\ OutPath \in DOMAIN fs
        /\ fs[OutPath] = srcFile
        /\ rman.Hash = HexEncode(SHA256(fs[OutPath]))

\* C1 for the Send of part_000 alone: the round trip holds when the RSA-OAEP
\* sender runs.
C1_RoundTripRSA == sndImpl = "rsa" => C1_RoundTrip

\* C2: nonce uniqueness. The k-th nonceFor call of Send (and of Receive) returns
\* the base nonce's high 8 bytes followed by the big-endian counter k - 1; the
\* manifest is sealed (opened) with counter 0 and every chunk after it; there is
\* exactly one call per sealed frame written (read); the nonces are pairwise
\* distinct.
C2_NonceShape(log, base) ==
    /\ \A k \in 1..Len(log) :
          /\ \A j \in 1..8 : log[k].nonce[j] = base[j]
          /\ SubSeq(log[k].nonce, 9, 12) = BigEndian(k - 1)
          /\ (k = 1) = (log[k].aad = ManifestAAD)
    /\ \A k, l \in 1..Len(log) : k # l => log[k].nonce # log[l].nonce

C2_NonceUniqueness ==
    /\ C2_NonceShape(sndSeals, sndBase)
    /\ Len(sndSeals) = Cardinality(FramesIn(SndWritten))
    /\ C2_NonceShape(rcvOpens, rcvBase)
    /\ Len(rcvOpens) = IF s2rRead >= 4 THEN (s2rRead - 4) \div 2 ELSE 0

C2_Witness ==
    /\ Len(sndSeals) = 3
    /\ Len(rcvOpens) = 3
    /\ rcvOpens[3].ok

\* C3: no partial file at the final path. A step changes a file other than the
\* .part file only as the rename of the .part file, taken by Receive after out
\* was closed and with the running SHA-256 equal to manifest.hash; the file it
\* puts at the final path is the whole verified content; and when Receive has
\* failed the final path still holds what it held before the transfer.
C3_RenameStep ==
    /\ rcvPc = "verify"
    /\ rcvPc' = "done"
    /\ ~outOpen
    /\ HexEncode(SHA256(hdata)) = rman.Hash
    /\ Len(hdata) >= rman.Size
    /\ fs[TmpPath] = hdata
    /\ fs' = [p \in (DOMAIN fs \ {TmpPath}) \cup {OutPath} |->
                IF p = OutPath THEN hdata ELSE fs[p]]
    /\ ~Renamed

C3_NoPartialFinal ==
    /\ [][FinalView' # FinalView => C3_RenameStep]_vars
    /\ [](rcvPc = "failed" => FinalView = (FinalPath :> OldContent))

C3_Witness ==
    /\ rcvPc = "done"
    /\ Renamed
    /\ fs[OutPath] # OldContent
    /\ Len(fs[OutPath]) > ChunkSize

\* C4: hash mismatch. When Receive has received the declared bytes and its
\* SHA-256 differs from manifest.hash, its next step removes the .part file,
\* leaves every other file as it was, and returns the hash-mismatch error; it
\* never renames.
C4_HashMismatch ==
    /\ [][(rcvPc = "verify" /\ rcvPc' # "verify"
             /\ HexEncode(SHA256(hdata)) # rman.Hash) =>
            /\ rcvPc' = "failed"
            /\ rcvErr' = "hash mismatch"
            /\ TmpPath \notin DOMAIN fs'
            /\ FinalView' = FinalView]_vars
    /\ [](rcvErr = "hash mismatch" =>
            /\ written >= rman.Size
            /\ TmpPath \notin DOMAIN fs
            /\ ~Renamed
            /\ FinalView = (FinalPath :> OldContent))

C4_Witness ==
    /\ rcvErr = "hash mismatch"
    /\ written > 0

\* C5, as claimed: whenever Receive has returned an error after creating the
\* .part file, the .part file no longer exists.
C5_FailureDiscardsPart ==
    (rcvPc = "failed" /\ Created) => TmpPath \notin DOMAIN fs

\* C6: tamper detection. An open of a frame whose ciphertext was altered, or that
\* was sealed under other associated data, fails and is the last open of Receive:
\* Receive has returned the decryption error, the .part file holds exactly the
\* plaintext of the frames opened before it, and nothing was renamed. When a
\* chunk frame was altered in transit, Receive never renames.
C6_OkChunks == {k \in 2..Len(rcvOpens) : rcvOpens[k].ok}

C6_TamperDetection ==
    /\ \A k \in 1..Len(rcvOpens) :
          rcvOpens[k].altered # "none" =>
             /\ ~rcvOpens[k].ok
             /\ k = Len(rcvOpens)
             /\ rcvPc = "failed"
             /\ rcvErr = (IF k = 1 THEN "decrypt manifest" ELSE "decrypt chunk")
             /\ ~Renamed
             /\ k > 1 => /\ Cardinality({i \in 1..Len(fsLog) : fsLog[i].op = "write"}) = k - 2
                         /\ fs[TmpPath] = hdata
                         /\ written = Len(hdata)
    /\ Cardinality({i \in 1..Len(fsLog) : fsLog[i].op = "write"}) <= Cardinality(C6_OkChunks)
    /\ (\E i \in 1..Len(faults) : faults[i].kind \in {"tamper", "aad"}) => ~Renamed

C6_Witness ==
    /\ Len(rcvOpens) = 3
    /\ rcvOpens[3].altered = "bytes"
    /\ rcvErr = "decrypt chunk"
    /\ Len(fs[TmpPath]) = ChunkSize

\* C7, as claimed: when the stream has dropped, duplicated or reordered a whole
\* chunk frame, Receive never reaches the rename.
C7_DesyncFault == \E i \in 1..Len(faults) : faults[i].kind \in {"drop", "dup", "swap"}

C7_DesyncNeverRenames == C7_DesyncFault => ~Renamed

\* C7, amended: every open Receive performs at or after the affected position
\* fails authentication, and once such an open was performed Receive has failed
\* and never renames; a rename after such a fault happens only when Receive
\* read no frame at or after the affected position (a duplicate behind the last
\* frame it needs), and the file renamed is the source file.
C7_OpensAfter(q) == {k \in 1..Len(rcvOpens) : rcvOpens[k].pos >= q}

C7_DesyncIsFatal ==
    \A i \in 1..Len(faults) :
        faults[i].kind \in {"drop", "dup", "swap"} =>
           /\ \A k \in C7_OpensAfter(faults[i].pos) :
                 /\ ~rcvOpens[k].ok
                 /\ rcvPc = "failed"
                 /\ rcvErr = "decrypt chunk"
           /\ Renamed => /\ C7_OpensAfter(faults[i].pos) = {}
                         /\ faults[i].kind = "dup"
                         /\ fs[OutPath] = srcFile

C7_Witness ==
    /\ C7_DesyncFault
    /\ C7_OpensAfter(faults[1].pos) # {}
    /\ Len(rcvOpens) = 3
    /\ rcvErr = "decrypt chunk"

\* C8, as claimed: the session key is never on the stream in the clear; it is
\* written only inside the RSA-OAEP ciphertext of the 0x02 message, encrypted
\* under the public key the receiver announced.
C8_KeyOnlyUnderRSA ==
    \A i \in 1..Len(SndWritten) :
        LET tok == SndWritten[i]
        IN  tok.f = "bytes" =>
               /\ tok.p.kind # "rawkey"
               /\ tok.p.kind = "rsa" =>
                     /\ i = 3
                     /\ SndWritten[1] = ByteTok(TagKeyHeader)
                     /\ tok.p.key = sndKey
                     /\ Len(r2sLog) >= 3
                     /\ tok.p.pub = r2sLog[3].p.pub

\* C8 for the Send of part_000 alone
C8_KeyOnlyUnderRSA_RSA == sndImpl = "rsa" => C8_KeyOnlyUnderRSA

\* C9, as claimed: the receiver writes its whole announcement before it reads
\* anything; the sender writes nothing before it has read the complete
\* announcement, and the first message it writes is the 0x02 key delivery.
C9_HandshakeOrder ==
    /\ s2rRead > 0 =>
          /\ Len(r2sLog) = 3
          /\ r2sLog[1] = ByteTok(TagPubKey)
    /\ SndWritten # <<>> =>
          /\ sndPc \notin {"build", "readTag", "readLen", "readDER"}
          /\ Len(r2sLog) - Len(r2s) = 3
          /\ SndWritten[1] = ByteTok(TagKeyHeader)

\* C9 for the Send of part_000 alone
C9_HandshakeOrderRSA == sndImpl = "rsa" => C9_HandshakeOrder

\* C10: an unexpected tag is fatal. When the byte Send read is not 0x01, Send has
\* failed and has written nothing, and has read nothing more; when the byte
\* Receive read is not 0x02, Receive has failed, has read nothing more, has
\* written nothing but its announcement and has touched no file.
C10_UnexpectedTagFatal ==
    /\ sndMsgType \notin {-1, TagPubKey} =>
          /\ sndPc = "failed"
          /\ sndErr = "unexpected receiver message type"
          /\ SndWritten = <<>>
          /\ Len(r2sLog) - Len(r2s) = 1
    /\ rcvVer \notin {-1, TagKeyHeader} =>
          /\ rcvPc = "failed"
          /\ rcvErr = "unexpected header version"
          /\ s2rRead = 1
          /\ Len(r2sLog) = 3
          /\ fsLog = <<>>
          /\ fs = (FinalPath :> OldContent)
          /\ rcvOpens = <<>>

C10_Witness ==
    /\ sndMsgType \notin {-1, TagPubKey}
    /\ sndPc = "failed"
    /\ Returned(rcvPc)

\* the cryptographic operations the current call of Send / Receive attempted
OpsOf(by) == {o.op : o \in {x \in cryptoOps : x.by = by}}

\* number of tokens Send has read from the stream
R2sRead == Len(r2sLog) - Len(r2s)

\* Send, resp. Receive, has rejected a declared length
SendRejectedLen == sndPc = "failed" /\ sndErr = "invalid pubkey length"
RecvRejectedLen == rcvPc = "failed" /\ rcvErr = "invalid encKey len"

AllSeals == pastSeals \o SealsOfCall

\* C12: fresh session per file. Over any sequence of Send calls, every call that
\* seals has a key no earlier call had and a base nonce no earlier call had, its
\* first seal uses counter 0, and no (key, nonce) pair is used for two seals
\* anywhere in the sequence.
C12_FreshSession ==
    /\ \A i, j \in 1..Len(AllSeals) : i # j => AllSeals[i] # AllSeals[j]
    /\ sndSeals # <<>> =>
         /\ sndSeals[1].ctr = Uint32Zero
         /\ \A i \in 1..Len(pastSeals) :
               /\ pastSeals[i].key # sndKey
               /\ \E b \in 1..(NonceSize - 4) : pastSeals[i].nonce[b] # sndBase[b]

\* a second call of Send has sealed several frames after a first one did
C12_Witness == calls = 2 /\ Len(pastSeals) >= 2 /\ Len(sndSeals) >= 2

\* the first n bytes of the stream passed to Write
StreamPrefix(n) == [i \in 1..n |-> i]

\* C13: the stream adapter preserves the byte sequence. With an open channel,
\* for every sequence of Write calls, every fragmentation, every size of the
\* reader's buffers and with the writer held back by backpressure, the bytes
\* the Read calls at the peer have returned are a prefix of the bytes passed to
\* Write, and every byte passed to Write is, in order, either returned, or left
\* in c.cur, or queued, or in the callback, or buffered by the channel, or not
\* yet sent: none lost, duplicated or reordered.
C13_StreamPreserved ==
    /\ Len(readOut) <= wNext
    /\ readOut = StreamPrefix(Len(readOut))
    /\ readOut \o cur \o Flatten(msgs) \o omMsg \o Flatten(dcOut) \o wP = StreamPrefix(wNext)

\* the writer waits for the buffer to drain while the reader has consumed a
\* message in part
C13_Witness == wPc = "wait" /\ readOut # <<>> /\ cur # <<>> /\ rPc = "idle"

\* C14: backpressure bound. Write is about to hand a fragment to the channel
\* only while the buffered amount is at most highWater, every fragment has
\* between 1 and max bytes, and the buffered amount never exceeds highWater + max.
C14_BackpressureBound ==
    /\ wPc = "send" => BufferedAmount <= highWater
    /\ \A k \in 1..Len(dcOut) : Len(dcOut[k]) >= 1 /\ Len(dcOut[k]) <= max
    /\ wPc # "idle" => wN >= 1 /\ wN <= max
    /\ BufferedAmount <= highWater + max

\* the buffer is as full as it gets and the writer waits
C14_Witness == BufferedAmount = highWater + max /\ wPc = "wait"

\* a blocked Read, resp. Write, of a closed end
ReadBlockedClosed == rPc = "loop" /\ cur = <<>> /\ msgs = <<>> /\ closed["r"]
WriteBlockedClosed == wPc = "wait" /\ closed["w"]

\* C15, as claimed: close wakes blocked callers. A Read blocked on an empty
\* queue of a closed end eventually returns end-of-stream, and a Write waiting
\* for the buffered amount to drain at a closed end eventually returns an error.
C15_CloseWakes ==
    /\ ReadBlockedClosed ~> (rPc = "idle" /\ readEOF)
    /\ WriteBlockedClosed ~> (wPc = "idle" /\ wRet \in {"EOF", "send"})

\* C15, as far as the code goes: the blocked Write returns an error, and the
\* blocked Read returns end-of-stream unless the process has panicked first.
C15_CloseWakesUnlessPanic ==
    /\ ReadBlockedClosed ~> ((rPc = "idle" /\ readEOF) \/ panicked)
    /\ WriteBlockedClosed ~> (wPc = "idle" /\ wRet \in {"EOF", "send"})

\* C16: Close is idempotent. At each end close(c.msgs) runs at most once, and
\* exactly when c.closed is set; c.closed never goes back to false; at most one
\* Close call reaches dc.Close, every other Close call has returned nil without
\* calling it.
C16_ClosedOnce ==
    \A e \in Ends :
        /\ msgsCloses[e] <= 1
        /\ closed[e] <=> msgsCloses[e] = 1
        /\ dcCloseCalls[e] + (IF closePending[e] THEN 1 ELSE 0) <= 1
        /\ closeNil[e] = closeCalls[e] - dcCloseCalls[e] - (IF closePending[e] THEN 1 ELSE 0)
        /\ closeCalls[e] >= 2 => closeNil[e] >= closeCalls[e] - 1

C16_CloseIdempotent ==
    /\ []C16_ClosedOnce
    /\ [][\A e \in Ends : closed[e] => closed'[e]]_vars

\* Close was called twice at an end whose close callback has also run
C16_Witness ==
    \E e \in Ends : closeCalls[e] = 2 /\ onClosePc[e] = "done" /\ closeNil[e] >= 1

\* a Read call returns without a byte: io.EOF
C17_ReadReturnsEOF == rPc = "loop" /\ rPc' = "idle" /\ readOut' = readOut

\* C17: end-of-stream only after the queue is drained. Once the end is closed,
\* the bytes left in c.cur and queued in c.msgs only move, in order, into what
\* Read returns, and a Read call returns io.EOF only when c.cur and c.msgs are
\* both empty; after an io.EOF nothing is left.
C17_EOFAfterDrain ==
    /\ [][closed["r"] =>
            readOut' \o cur' \o Flatten(msgs') = readOut \o cur \o Flatten(msgs)]_vars
    /\ [][C17_ReadReturnsEOF => closed["r"] /\ cur = <<>> /\ msgs = <<>>]_vars
    /\ [](readEOF => cur = <<>> /\ msgs = <<>>)

\* the end was closed holding the rest of a partly read message and queued
\* messages, and Read has since returned io.EOF
C17_Witness == owed /\ readEOF /\ Len(readOut) >= 3

\* the manifest Receive opened declares the size of the data its sender hashed
HonestSize == \A k \in 1..Len(faults) : faults[k].kind # "size"

\* C18, as claimed: Receive completes exactly at the declared size. Receive
\* returns success only if the number of plaintext bytes written to the temp file
\* equals manifest.size; once the total has gone past manifest.size, or when the
\* stream has ended before manifest.size bytes, the file is not finalized.
C18_ExactSize ==
    /\ rcvPc = "done" => written = rman.Size /\ Len(fs[OutPath]) = rman.Size
    /\ written # rman.Size => ~Renamed

\* C18 for a manifest whose size is the size of the data hashed, as
\* BuildManifest makes it
C18_ExactSizeHonest == HonestSize => C18_ExactSize

\* the source file is the one BuildManifest hashed
FileUnmodified == sman.Hash = HexEncode(SHA256(srcFile))

\* what Send has written after the manifest frame
AfterManifest ==
    LET w == SndWritten
        at == {i \in FramesIn(w) : w[i].p.aad = ManifestAAD}
    IN  IF at = {} THEN <<>>
        ELSE LET i == CHOOSE i \in at : TRUE IN SubSeq(w, i + 1, Len(w))

\* the k-th ChunkSize-byte block of the source file
Block(k) == SubSeq(srcFile, (k - 1) * ChunkSize + 1, Min(k * ChunkSize, Len(srcFile)))

CeilDiv(a, b) == (a + b - 1) \div b

\* C19: chunk framing of the sender. For a file of S bytes read in full
\* ChunkSize blocks, what Send writes after the manifest frame is exactly one
\* length-prefixed frame per block read so far, in file order, each sealing a
\* non-empty block of at most ChunkSize bytes (all but possibly the last exactly
\* ChunkSize) under the session key with associated data the manifest hash bytes;
\* when Send returns nil there are ceil(S / ChunkSize) of them and no trailing
\* empty frame.
C19_ChunkFraming ==
    (sndPc \in {"stream", "done"} /\ FileUnmodified) =>
        LET nf == CeilDiv(sndOff, ChunkSize)
            a == AfterManifest
        IN  /\ Len(a) = 2 * nf
            /\ \A k \in 1..nf :
                  /\ Len(Block(k)) \in 1..ChunkSize
                  /\ k < nf => Len(Block(k)) = ChunkSize
                  /\ a[2 * k - 1] = U32Tok(Len(Block(k)) + GCMTagSize)
                  /\ a[2 * k].f = "bytes"
                  /\ a[2 * k].n = Len(Block(k)) + GCMTagSize
                  /\ a[2 * k].p.kind = "gcm"
                  /\ a[2 * k].p.pt = Block(k)
                  /\ a[2 * k].p.key = sndKey
                  /\ a[2 * k].p.aad = HexDecode(sman.Hash)
                  /\ a[2 * k].p.aad = SHA256(srcFile)
            /\ sndPc = "done" => nf = CeilDiv(Len(srcFile), ChunkSize)

\* Send has returned nil for a file one byte longer than a block: two frames
C19_Witness ==
    /\ sndPc = "done"
    /\ FileUnmodified
    /\ Len(srcFile) = ChunkSize + 1
    /\ Len(AfterManifest) = 4
    /\ Len(AfterManifest[2].p.pt) = ChunkSize
    /\ Len(AfterManifest[4].p.pt) = 1

\* the key-delivery message of Send, as tokens on the stream
IsKeyDelivery(q) ==
    /\ Len(q) = 4
    /\ q[1] = ByteTok(TagKeyHeader)
    /\ q[2] = U32Tok(EncKeyLen)
    /\ q[3] = BytesTok(EncKeyLen, EncryptKeyRSAOAEP(sndPub, sndKey))
    /\ q[4] = BytesTok(NonceSize, [kind |-> "nonce", b |-> sndBase])

\* Send has returned nil for an empty source file: after its session header it
\* wrote the manifest frame, declaring size 0, and nothing else
ZeroByteSent ==
    LET w == SndWritten
        n == Len(w)
    IN  /\ n >= 2
        /\ IsFrameAt(w, n - 1)
        /\ FramesIn(w) = {n}
        /\ w[n].p = Seal(sndKey, nonceFor(sndBase, Uint32Zero), JSONMarshal(sman), ManifestAAD)
        /\ w[n - 1] = U32Tok(w[n].n)
        /\ sman.Size = 0
        /\ sman.Hash = HexEncode(SHA256(<<>>))
        /\ sndImpl = "rsa" => IsKeyDelivery(SubSeq(w, 1, n - 2))

\* Receive has opened a manifest of size 0 and created the temp file
ZeroByteOpened == Created /\ rman.Size = 0 /\ rcvErr # "decode hash"

\* C20: zero-byte file. For an empty source file Send writes the key-delivery
\* message and the manifest frame (size 0) and zero chunk frames. Receive, once
\* it has opened a manifest of size 0, never reads the stream again: it is never
\* at a chunk read, the temp file it created is empty, its next steps (close,
\* verify, rename) are enabled whatever the stream holds, and when it returns
\* success the empty file is at the final name, its hash the manifest's.
C20_ZeroByteFile ==
    /\ [](sndPc = "done" /\ srcFile = <<>> /\ FileUnmodified => ZeroByteSent)
    /\ [](ZeroByteOpened =>
            /\ rcvPc \in {"close", "verify", "done", "failed"}
            /\ written = 0
            /\ hdata = <<>>
            /\ TmpPath \in DOMAIN fs => fs[TmpPath] = <<>>
            /\ rcvPc = "close" => ENABLED RecvClose
            /\ rcvPc = "verify" => ENABLED RecvVerify
            /\ rcvPc = "done" =>
                  /\ Renamed
                  /\ fs[OutPath] = <<>>
                  /\ TmpPath \notin DOMAIN fs
                  /\ rman.Hash = HexEncode(SHA256(fs[OutPath])))
    /\ [][ZeroByteOpened => s2rRead' = s2rRead]_vars

\* Receive has finalized the empty file while Send is still in its chunk loop,
\* the stream is empty and still open
C20_Witness ==
    /\ srcFile = <<>>
    /\ FileUnmodified
    /\ ZeroByteOpened
    /\ rcvPc = "done"
    /\ fs[OutPath] = <<>>
    /\ sndPc = "stream"
    /\ s2r = <<>>
    /\ ~s2rEOF

\* the plaintext bytes sealed into the chunk frames among the tokens q, in order
RECURSIVE ChunkBytes(_)
ChunkBytes(q) ==
    IF q = <<>> THEN <<>>
    ELSE (IF Head(q).f = "bytes" /\ Head(q).p.kind = "gcm" /\ Head(q).p.aad # ManifestAAD
          THEN Head(q).p.pt ELSE <<>>) \o ChunkBytes(Tail(q))

\* C21, as claimed: the manifest matches what is transmitted. In every run of
\* Send, also when the source file is modified between the manifest-building
\* pass and the streaming pass, once Send has returned nil the manifest's size is
\* the number of plaintext bytes sealed into chunk frames and the manifest's hash
\* is the SHA-256 of exactly those bytes.
C21_ManifestMatchesSent ==
    sndPc = "done" =>
        /\ sman.Size = Len(ChunkBytes(SndWritten))
        /\ sman.Hash = HexEncode(SHA256(ChunkBytes(SndWritten)))

\* C21 for a source file that stays as BuildManifest read it
C21_ManifestMatchesSentUnmodified == FileUnmodified => C21_ManifestMatchesSent

\* path lies inside the output directory
InsidePublic(path) ==
    /\ Len(path) >= 3
    /\ SubSeq(path, 1, 2) = PublicDir \o <<"/">>
    /\ \A e \in 1..Len(SplitPath(path, <<>>)) : SplitPath(path, <<>>)[e] # DotDot

\* C22, as claimed: output confinement. For every manifest name that
\* authenticates under the session key, every path Receive creates, writes,
\* removes or renames (from or to) lies inside the output directory "public".
C22_OutputConfined ==
    /\ \A k \in 1..Len(fsLog) :
          fsLog[k].op # "mkdir" =>
              /\ InsidePublic(fsLog[k].path)
              /\ fsLog[k].op = "rename" => InsidePublic(fsLog[k].to)
    /\ \A p \in DOMAIN fs : InsidePublic(p)

\* C22 for manifests that carry the name this repository's Send gives them
C22_OutputConfinedOwnNames ==
    (\A k \in 1..Len(faults) : faults[k].kind # "name") => C22_OutputConfined

\* C23: process-wide receiver key. Under every interleaving of concurrent
\* GetOrCreateRSA4096 calls, key generation runs at most once, no call returns
\* before that generation has finished, every call returns the same key pair (or
\* the same error), namely what the one generation produced, and cachedPriv is
\* never written again after first creation.
C23_KeyOnce ==
    /\ [](/\ genStarts <= 1
          /\ privWrites <= 1
          /\ \A s \in Sessions :
                kPc[s] = "done" =>
                    /\ genEnds = 1
                    /\ kRet[s] = <<cachedPriv, onceErr>>
                    /\ kRet[s] \in {<<1, "">>, <<0, "rsa">>}
                    /\ \A t \in Sessions : kPc[t] = "done" => kRet[t] = kRet[s])
    /\ [][genEnds >= 1 => UNCHANGED <<cachedPriv, onceErr>>]_vars

\* every session has its key, and two of them went through the locked path
C23_Witness ==
    /\ \A s \in Sessions : kPc[s] = "done" /\ kRet[s] = <<1, "">>
    /\ \E s, t \in Sessions : s # t /\ kSlow[s] /\ kSlow[t]

C25_CounterNeverRepeats ==
    \A i, j \in 1..Len(cSeals) : i < j => cSeals[i] < cSeals[j]

\* C25 for sessions of at most 2^w seals: the manifest and up to 2^w - 1 chunks
C25_CounterIncreasesBelowWrap ==
    \A i, j \in 1..Min(Len(cSeals), CtrMod) : i < j => cSeals[i] < cSeals[j]

\* the messages on their way to Receive: on the connection or in its br
MultiInFlight == mRbr \o mS2R

\* C26: sequential multi-file sessions. When MaxCalls Send calls and as many
\* Receive calls are made one after another on the same connection, the reader
\* of each call holds and consumes only messages of its own transfer and leaves
\* none behind when the call returns, at most one transfer's frames are in
\* flight at any time, no call fails, and the run cannot stop before all
\* MaxCalls transfers have succeeded at both ends.
C26_SequentialTransfers ==
    /\ \A i \in 1..Len(mRbr) : mRbr[i].t = mRcvK
    /\ \A i \in 1..Len(mSbr) : mSbr[i].t = mSndK
    /\ mLost = <<>>
    /\ \A i, j \in 1..Len(MultiInFlight) : MultiInFlight[i].t = MultiInFlight[j].t
    /\ mSndPc # "failed" /\ mRcvPc # "failed"
    /\ ~ENABLED NextMulti => mSndOk = MaxCalls /\ mRcvOk = MaxCalls

\* all transfers have succeeded, the last one of a file of several chunks
C26_Witness ==
    /\ mSndOk = MaxCalls
    /\ mRcvOk = MaxCalls
    /\ mRcvPc = "idle"
    /\ mRcvGot = MaxMultiChunks
    /\ mS2R = <<>> /\ mR2S = <<>>

\* C27, as claimed: session isolation. Two Receive sessions running concurrently
\* in one process never write the same package-level variable and never write
\* the same temporary file path.
C27_SessionIsolation ==
    \A a, b \in iWrites : (a[2] = b[2] /\ a[3] = b[3]) => a[1] = b[1]

\* C27 for the files alone, when the concurrent sessions receive different names
C27_DistinctNamesDistinctFiles ==
    \A a, b \in iWrites :
        (a[2] = "file" /\ b[2] = "file" /\ a[3] = b[3] /\ iName[a[1]] # iName[b[1]])
            => a[1] = b[1]

\* the positions of path that hold a separator of either convention
SepsOf(path) == {i \in 1..Len(path) : path[i] = "/" \/ path[i] = "\\"}

\* C28: the manifest name is the final path component. For every path, fileName
\* returns the part after the last '/' or '\' (the whole path if it contains
\* neither), so the name never contains '/' or '\', whichever separator
\* convention the path uses.
C28_FinalComponent ==
    /\ SepsOf(fnOut) = {}
    /\ SepsOf(fnPath) = {} => fnOut = fnPath
    /\ SepsOf(fnPath) # {} =>
          LET last == CHOOSE i \in SepsOf(fnPath) : \A j \in SepsOf(fnPath) : j <= i
          IN  fnOut = SubSeq(fnPath, last + 1, Len(fnPath))

\* a path that uses both conventions, the last separator a backslash
C28_Witness ==
    /\ fnPath = <<"a", "/", "\\", "a">>
    /\ fnOut = <<"a">>

\* a word: one or more pieces, none a space
IsWord(w) == w # <<>> /\ \A i \in 1..Len(w) : w[i] # " "

\* the line is exactly HELLO P2P/1 <peerName> <password>, single spaces between
ExactHello(line, password) ==
    \E k \in 5..(Len(line) - 2) :
        /\ SubSeq(line, 1, 4) = <<"HELLO", " ", "P2P/1", " ">>
        /\ IsWord(SubSeq(line, 5, k))
        /\ line[k + 1] = " "
        /\ SubSeq(line, k + 2, Len(line)) = password

\* the line, spaces at its ends and runs of spaces aside, starts with the fields
\* HELLO, P2P/1, a peer name and the password; further fields may follow
LenientHello(line, password) ==
    LET f == Fields(line)
    IN  /\ Len(f) >= 4
        /\ f[1] = <<"HELLO">>
        /\ f[2] = <<"P2P/1">>
        /\ f[4] = password

CtrVal(ctr) == ((ctr[1] * 256 + ctr[2]) * 256 + ctr[3]) * 256 + ctr[4]

\* C30: lock-step nonces. In every state of a fault-free Send/Receive run the
\* receiver's counter is at most the sender's, and the nonce and associated data
\* of the receiver's n-th open are those of the sender's n-th seal (the first is
\* the manifest with associated data "manifest", the later ones are chunks with
\* the manifest hash bytes), so every open succeeds.
C30_LockStep ==
    ~env =>
        /\ CtrVal(rcvCtr) <= CtrVal(sndCtr)
        /\ CtrVal(rcvCtr) = Len(rcvOpens)
        /\ CtrVal(sndCtr) = Len(sndSeals)
        /\ \A n \in 1..Len(rcvOpens) :
              /\ rcvOpens[n].ctr = sndSeals[n].ctr
              /\ rcvOpens[n].nonce = sndSeals[n].nonce
              /\ rcvOpens[n].aad = sndSeals[n].aad
              /\ rcvOpens[n].aad = IF n = 1 THEN ManifestAAD ELSE HexDecode(sman.Hash)
              /\ rcvOpens[n].ok

\* a fault-free run in which Receive has opened the manifest and two chunks
C30_Witness ==
    /\ ~env
    /\ rcvPc = "done"
    /\ Len(rcvOpens) = 3
    /\ rcvOpens[3].nonce = sndSeals[3].nonce
    /\ rcvOpens[3].aad = HexDecode(sman.Hash)

\* the call of Send has attempted the operation op
SendDid(op) == [by |-> "Send", op |-> op] \in cryptoOps

\* the manifest frames and the chunk frames among what Send has written
ManifestFrames == {i \in FramesIn(SndWritten) : SndWritten[i].p.aad = ManifestAAD}
ChunkFrames == FramesIn(SndWritten) \ ManifestFrames

\* the manifest frame is written once, in the step that leaves the state where
\* the session is established, and before every chunk frame
C31_ManifestFrameOnce ==
    sndImpl = "rsa" =>
        /\ Cardinality(ManifestFrames) <= 1
        /\ ManifestFrames # {} <=> sndPc \in {"stream", "done"}
        /\ \A c \in ChunkFrames : \A m \in ManifestFrames : m < c
        /\ ChunkFrames # {} => ManifestFrames # {}

\* C31, as claimed: sender state order. Send passes through AwaitPeerKey,
\* SessionEstablished, ManifestSent, Streaming, Done in that order; the manifest
\* is built in the step from SessionEstablished to ManifestSent, that is the
\* source file is first read only after the peer's key announcement has been
\* consumed and the session key and base nonce have been generated; and the
\* manifest frame is written exactly once and before any chunk frame.
C31_SenderStateOrder ==
    /\ C31_ManifestFrameOnce
    /\ (sndImpl = "rsa" /\ SendDid("sha256")) =>
          /\ sndMsgType = TagPubKey
          /\ SendDid("ParsePublicKeyDER")
          /\ SendDid("GenerateKey")
          /\ SendDid("rand.Read")

\* Send of part_000 has returned the error of a failed f.Read
ReadFailed == sndImpl = "rsa" /\ sndErr = "read file"

\* every byte of the source file was sealed and has left bw
AllOnWire == sndOff = Len(srcFile) /\ sndBuf = <<>>

\* C32, as claimed: sender read error aborts without a terminator. If reading
\* the source file fails after some chunk frames were produced, Send returns an
\* error, writes no further frame and no end marker, and the receiver never
\* renames the file to its final name (it either fails on a short stream or
\* stays in Receiving).
C32_ReadErrorNeverRenames ==
    /\ [](ReadFailed /\ sndOff > 0 =>
            /\ sndPc = "failed"
            /\ ~Renamed
            /\ rcvPc # "done"
            /\ rcvPc = "failed" => rcvErr \in {"read chunk len", "read chunk"})
    /\ [][ReadFailed' => s2rLog' = s2rLog /\ sndBuf' = sndBuf]_vars

\* C32, amended: if reading the source file fails, Send returns an error and
\* from the failing read on nothing more reaches the connection: what bw holds
\* is never flushed and there is no end marker. The receiver renames the file
\* only if every byte of the file had been sealed and had left bw before the
\* failing read, and then the file it renames is the source file; in every other
\* case it never renames: it stays in its chunk loop, or fails on the short
\* stream once the connection is closed.
C32_ReadErrorAborts ==
    /\ [](ReadFailed =>
            /\ sndPc = "failed"
            /\ Renamed => AllOnWire /\ fs[OutPath] = srcFile
            /\ ~AllOnWire =>
                  /\ rcvPc # "done"
                  /\ rcvPc = "failed" => rcvErr \in {"read chunk len", "read chunk"})
    /\ [][ReadFailed' => s2rLog' = s2rLog /\ sndBuf' = sndBuf]_vars

\* f.Read failed with one chunk frame on the wire and another still in bw; the
\* receiver wrote the first chunk and failed at the end of the stream
C32_Witness ==
    /\ ReadFailed
    /\ sndOff > ChunkSize
    /\ sndBuf # <<>>
    /\ written = ChunkSize
    /\ rcvPc = "failed"
    /\ rcvErr = "read chunk len"
    /\ ~Renamed

\* the errors Receive returns from the steps up to the decoding of the manifest
HandshakeErrors ==
    {"read header version", "unexpected header version", "read encKey len",
     "invalid encKey len", "read encKey", "read base nonce", "rsa-oaep decrypt",
     "read manifest len", "read manifest", "decrypt manifest", "decode manifest"}

\* the stream suffered a fault of the kind named
Suffered(kind) == \E k \in 1..Len(faults) : faults[k].kind = kind

\* the receiver's file system before Receive was called
FsAtStart == [p \in {FinalPath} |-> OldContent]

\* C33: handshake and manifest failures leave the filesystem unchanged. If
\* Receive fails at any step up to and including opening and decoding the
\* manifest frame (stream error, bad tag, bad length, RSA-OAEP decryption failure,
\* manifest authentication failure, manifest decode failure), it has created no
\* directory and no file, and it makes no second attempt to open any frame with
\* the same session.
C33_HandshakeFailureNoEffect ==
    /\ [](rcvErr \in HandshakeErrors =>
            /\ rcvPc = "failed"
            /\ fsLog = <<>>
            /\ fs = FsAtStart
            /\ ~outOpen
            /\ Len(rcvOpens) <= 1
            /\ \A k \in 1..Len(rcvOpens) : ~rcvOpens[k].ok \/ rcvErr = "decode manifest")
    /\ [](Suffered("json") \/ Suffered("key") => fsLog = <<>> /\ fs = FsAtStart)
    /\ [][rcvPc = "failed" =>
            rcvOpens' = rcvOpens /\ rcvCtr' = rcvCtr /\ fs' = fs /\ fsLog' = fsLog]_vars

\* Receive opened a manifest frame that is no JSON and returned, with chunk
\* frames waiting on the stream, having touched no file
C33_Witness ==
    /\ rcvErr = "decode manifest"
    /\ Len(rcvOpens) = 1
    /\ rcvOpens[1].ok
    /\ s2r # <<>>
    /\ fsLog = <<>>
    /\ fs = FsAtStart

\* the OnMessage callback at "r" is at c.msgs <- b and cannot go on
PushBlocked == omPc = "push" /\ ~panicked /\ msgsCloses["r"] = 0 /\ ~ENABLED OnMessagePush

\* the order half of C34: what the queue and the callback hold is the part of
\* the stream that follows what Read has taken, in order
C34_ArrivalOrder ==
    Flatten(msgs) \o omMsg = SubSeq(StreamPrefix(wNext), Len(readOut) + Len(cur) + 1,
                                    Len(readOut) + Len(cur) + Len(Flatten(msgs)) + Len(omMsg))

\* C34, as claimed: the inbound queue is unbounded. The adapter's message-arrival
\* callback enqueues every message received while the adapter is open, in arrival
\* order, and never blocks, however many messages are already queued and unread
\* by the consumer.
C34_InboundUnbounded == C34_ArrivalOrder /\ ~PushBlocked

\* Write is in its backpressure loop although the buffered amount is at most highWater
HeldBackBelow == wPc \in {"wait", "check"} /\ BufferedAmount <= highWater

\* the channel drains and the peer reads: the channel goes on transmitting, the
\* callback and the reader's goroutine run whenever they can
Draining ==
    /\ WF_vars(Transmit)
    /\ WF_vars(OnMessagePush)
    /\ WF_vars(ReadCall)
    /\ WF_vars(ReadRecv)
    /\ WF_vars(ReadCopy)

\* C35: a blocked writer makes progress. If dcConn.Write is waiting because the
\* buffered amount exceeds highWater and the buffered amount later drops to
\* highWater or below and stays there, Write eventually sends the pending
\* fragment, even if the low-water notification was delivered before the writer
\* started waiting or was never delivered; with a draining channel every Write
\* call eventually returns having sent all its bytes.
C35_BlockedWriterProgress ==
    /\ []<>(~HeldBackBelow)
    /\ [][HeldBackBelow /\ wPc' \notin {"wait", "check"} => wPc' = "send"]_vars
    /\ Draining => (wPc # "idle" ~> (wPc = "idle" /\ wRet = "nil" /\ wNext = MaxStream))

\* Write waits, the buffered amount has dropped to highWater without reaching the
\* threshold of the notification, and no notification is pending
C35_Witness ==
    /\ wPc = "wait"
    /\ BufferedAmount <= highWater
    /\ BufferedAmount > threshold
    /\ lowCh["w"] = 0

\* C36, as claimed: a timeout aborts the state machine. When a deadline set on
\* the connection (SetDeadline / SetReadDeadline / SetWriteDeadline) expires
\* while Send or Receive is blocked in a read or write on that connection, the
\* blocked call returns an error and the state machine aborts; this holds also
\* when the connection is the data-channel stream adapter.
C36_TimeoutAborts ==
    /\ (rPc = "loop" /\ Expired(rd)) ~> (rPc = "idle" \/ ~Expired(rd))
    /\ (wPc \in {"check", "wait"} /\ Expired(wd)) ~> (wPc \in {"idle", "send"} \/ ~Expired(wd))

\* C37, as claimed: no send on a closed queue. Under every interleaving of the
\* message-arrival callback with dcConn.Close and with the channel's close
\* callback, the message callback never sends on the inbound queue channel after
\* that channel was closed, including when the callback had passed its
\* closed-flag check, or was blocked on a full queue, at the moment of the close.
C37_NoSendOnClosed ==
    /\ [][omPc = "push" /\ omPc' = "idle" => msgsCloses["r"] = 0]_vars
    /\ [](~panicked)

\* C38, as claimed: the connected signal closes once. Under every interleaving
\* of the data-channel-open callback and the ICE-connection-state callbacks (which
\* may run concurrently and may fire more than once), the peer's 'connected'
\* channel is closed at most once, and once it is closed Connected() stays
\* readable forever.
C38_ConnectedClosesOnce ==
    /\ connCloses <= 1
    /\ ~connPanic
    /\ connCloses > 0 => ENABLED ConnectedRecv

\* the listener's reader never holds more than the HELLO line: the dialer writes
\* nothing more before it has read the reply
C39_ListenerIntact == hsLost["listener"] = <<>>

\* C39, as claimed: the handshake hands over an intact stream. DialAndHandshake
\* and ListenAndAcceptOnce consume from the connection exactly the bytes of the
\* single handshake line they read, so that when the peer starts the secure
\* transfer immediately after the handshake, the first byte a subsequent Send or
\* Receive reads from the returned connection is the first byte the peer wrote
\* after its handshake line, under every interleaving of the peer's writes with
\* the local reads.
C39_IntactStream ==
    /\ \A e \in Sides : hsLost[e] = <<>>
    /\ hsFirst # "" => hsFirst = Announcement[1]
====
